---- MODULE Spec2Model ----
(***************************************************************************)
(* A model of the procem processor emulator: the word model, the          *)
(* registers and flags, the stack, the program container, the processor   *)
(* (load_program / execute_next_instruction / run_program) and the        *)
(* default instruction set of procem_default.                             *)
(***************************************************************************)
EXTENDS Integers, Sequences, FiniteSets, TLC

(***************************************************************************)
(* Word model (procem/src/word.rs), instantiated for I8, the word the     *)
(* unit tests of the default instruction set use.                         *)
(***************************************************************************)

\* impl_word!(I8, i8): the word is an 8-bit two's-complement integer.
Bits == 8

MIN == -(2 ^ (Bits - 1))

MAX == (2 ^ (Bits - 1)) - 1

Word == MIN..MAX

\* Width standing in for usize.  The model checker's integers have 32 bits,
\* so 2^64 cannot be written; every use below only needs a width larger than
\* the word's, and the sign-extending cast keeps its shape.
UsizeBits == 2 * Bits

\* Width standing in for u128 in the carry predicates.  For words a, b of
\* Bits bits the outcome of (a as uN) + (b as uN) and (a as uN) * (b as uN),
\* with and without wrapping, is the same for every N >= 2 * Bits - 1.
U128Bits == (2 * Bits) - 1

\* Two's-complement reduction of an exact result into the word range.
wrap(x) == ((x - MIN) % (2 ^ Bits)) + MIN

\* from_i32!: `value as i8`, a truncating cast.
from_i32(value) == wrap(value)

\* impl From<$name> for usize: `value.0 as usize`, a sign-extending cast.
as_usize(w) == IF w < 0 THEN (2 ^ UsizeBits) + w ELSE w

\* `self.0 as u128`, a sign-extending cast.
as_u128(w) == IF w < 0 THEN (2 ^ U128Bits) + w ELSE w

\* Division truncating toward zero, as Rust's integer division does.
trunc_div(a, b) ==
    LET abs(x) == IF x < 0 THEN -x ELSE x
        q == abs(a) \div abs(b)
    IN  IF (a < 0) = (b < 0) THEN q ELSE -q

\* An addition that saturates at MIN and MAX.
Word_add_saturating(a, b) ==
    IF a + b > MAX THEN MAX ELSE IF a + b < MIN THEN MIN ELSE a + b

\* impl Add/Sub/Mul for $name: wrapping_add, wrapping_sub, wrapping_mul.
Word_add(a, b) == wrap(a + b)

Word_sub(a, b) == wrap(a - b)

Word_mul(a, b) == wrap(a * b)

\* impl Div for $name: wrapping_div (b # 0; division by zero panics).
Word_div(a, b) == wrap(trunc_div(a, b))

\* overflowing_mul reporting overflow only above MAX.
overflowing_mul_above(a, b) == <<wrap(a * b), (a * b) > MAX>>

\* overflowing_*: <<result, overflow>>.
overflowing_add(a, b) == <<wrap(a + b), (a + b) \notin Word>>

overflowing_sub(a, b) == <<wrap(a - b), (a - b) \notin Word>>

overflowing_mul(a, b) == <<wrap(a * b), (a * b) \notin Word>>

overflowing_div(a, b) == <<wrap(trunc_div(a, b)), trunc_div(a, b) \notin Word>>

\* check_carry_add: `lhs + rhs > MAX as u128` on the sign-extended operands.
\* The u128 addition overflows when the exact sum needs more than the u128
\* width: a panic with overflow checks, a wrapped sum without.
check_carry_add_overflows(a, b) == as_u128(a) + as_u128(b) >= 2 ^ U128Bits

check_carry_add(a, b) == ((as_u128(a) + as_u128(b)) % (2 ^ U128Bits)) > MAX

\* check_carry_sub comparing the operands as signed integers.
check_carry_sub_signed(a, b) == a < b

\* check_carry_sub: `lhs < rhs` on the sign-extended operands.
check_carry_sub(a, b) == as_u128(a) < as_u128(b)

\* check_carry_mul: `lhs * rhs > MAX as u128` on the sign-extended operands.
check_carry_mul_overflows(a, b) == as_u128(a) * as_u128(b) >= 2 ^ U128Bits

check_carry_mul(a, b) == ((as_u128(a) * as_u128(b)) % (2 ^ U128Bits)) > MAX

\* check_carry_div: the overflow bit of overflowing_div.
check_carry_div(a, b) == overflowing_div(a, b)[2]

\* The bits of a word, least significant first, as an unsigned pattern.
as_unsigned(w) == IF w < 0 THEN (2 ^ Bits) + w ELSE w

bit(w, i) == (as_unsigned(w) \div (2 ^ i)) % 2

RECURSIVE from_bits(_, _)
from_bits(f, i) == IF i = Bits THEN 0 ELSE (f[i] * (2 ^ i)) + from_bits(f, i + 1)

from_unsigned(u) == IF u > MAX THEN u - (2 ^ Bits) ELSE u

\* impl BitAnd / BitOr / BitXor / Not for $name.
Word_bitand(a, b) ==
    from_unsigned(from_bits([i \in 0..(Bits - 1) |-> bit(a, i) * bit(b, i)], 0))

Word_bitor(a, b) ==
    from_unsigned(from_bits([i \in 0..(Bits - 1) |->
        IF bit(a, i) + bit(b, i) > 0 THEN 1 ELSE 0], 0))

Word_bitxor(a, b) ==
    from_unsigned(from_bits([i \in 0..(Bits - 1) |-> (bit(a, i) + bit(b, i)) % 2], 0))

Word_not(a) == (-a) - 1

\* impl Shl / Shr for $name: `self.0 << rhs.0`, `self.0 >> rhs.0` on i8.  A
\* shift amount outside 0..Bits-1 overflows the shift: a panic with overflow
\* checks, the amount masked to the low bits without.
shift_overflows(n) == n < 0 \/ n >= Bits

shift_amount(n) == as_unsigned(n) % Bits

Word_shl(a, n) == wrap(a * (2 ^ shift_amount(n)))

\* `>>` on a signed integer is an arithmetic shift.
Word_shr(a, n) == a \div (2 ^ shift_amount(n))

\* rotate_left / rotate_right by a u32 count.
rotate_left(a, val) ==
    LET k == val % Bits
        u == as_unsigned(a)
    IN  from_unsigned(((u * (2 ^ k)) % (2 ^ Bits)) + (u \div (2 ^ (Bits - k))))

rotate_right(a, val) == rotate_left(a, Bits - (val % Bits))


(***************************************************************************)
(* State.                                                                  *)
(***************************************************************************)

VARIABLES
    registers,        \* Processor.registers: general, pc, sp, flags
    stack,            \* Processor.stack: STACK_SIZE words
    program,          \* Processor.program: None, or Some(the instructions)
    overflow_checks,  \* the build: TRUE with overflow checks (debug), FALSE without
    aborted,          \* TRUE once a panic has ended the process
    running,          \* TRUE while a call of run_program is looping
    last,             \* the last step or direct execution: instruction, result, pre-state
    prev,             \* the step or direct execution before the last one
    run_result,       \* what the last completed run_program call returned
    trace,            \* the indices fetched by the current / last run_program call or stepping loop
    assembly          \* the last call of assemble: the source text and what it returned

vars == <<registers, stack, program, overflow_checks, aborted, running, last, prev, run_result, trace,
          assembly>>

(***************************************************************************)
(* Registers and flags (procem/src/register.rs).                           *)
(***************************************************************************)

GENERAL_REGISTER_COUNT == 16

GeneralRegister ==
    {"R0", "R1", "R2", "R3", "R4", "R5", "R6", "R7",
     "R8", "R9", "R10", "R11", "R12", "R13", "R14", "R15"}

Register == GeneralRegister \cup {"PC", "SP"}

\* `reg as usize`: the discriminant of the enum variant.
Register_as_usize ==
    [R0 |-> 0, R1 |-> 1, R2 |-> 2, R3 |-> 3, R4 |-> 4, R5 |-> 5, R6 |-> 6, R7 |-> 7,
     R8 |-> 8, R9 |-> 9, R10 |-> 10, R11 |-> 11, R12 |-> 12, R13 |-> 13, R14 |-> 14,
     R15 |-> 15, PC |-> 16, SP |-> 17]

Flag == {"C", "S", "V", "Z"}

\* `f as usize`: the discriminant of the enum variant.
Flag_as_usize == [C |-> 0, S |-> 1, V |-> 2, Z |-> 3]

\* Registers::new(): everything zero / false.
Registers_new ==
    [general |-> [i \in 0..(GENERAL_REGISTER_COUNT - 1) |-> 0],
     pc      |-> 0,
     sp      |-> 0,
     flags   |-> [i \in 0..3 |-> FALSE]]

get_reg(regs, reg) ==
    CASE reg = "PC" -> regs.pc
      [] reg = "SP" -> regs.sp
      [] OTHER      -> regs.general[Register_as_usize[reg]]

set_reg(regs, reg, val) ==
    CASE reg = "PC" -> [regs EXCEPT !.pc = val]
      [] reg = "SP" -> [regs EXCEPT !.sp = val]
      [] OTHER      -> [regs EXCEPT !.general[Register_as_usize[reg]] = val]

get_flag(regs, f) ==
    CASE f = "C" -> regs.flags[0]
      [] f = "S" -> regs.flags[1]
      [] f = "V" -> regs.flags[2]
      [] f = "Z" -> regs.flags[3]

set_flag(regs, f, val) == [regs EXCEPT !.flags[Flag_as_usize[f]] = val]

\* Registers::inc with a PC that does not wrap at MAX.
Registers_inc_unbounded(regs, reg) ==
    CASE reg = "PC" -> [regs EXCEPT !.pc = @ + 1]
      [] reg = "SP" -> [regs EXCEPT !.sp = Word_add(@, from_i32(1))]
      [] OTHER      -> [regs EXCEPT !.general[Register_as_usize[reg]] = Word_add(@, from_i32(1))]

\* Registers::inc that also sets the zero flag from the incremented value.
Registers_inc_sets_zero(regs, reg) ==
    LET val == Word_add(get_reg(regs, reg), from_i32(1))
    IN  set_flag(set_reg(regs, reg, val), "Z", val = 0)

\* Registers::inc / Registers::dec: `+= 1.into()` / `-= 1.into()`, wrapping.
Registers_inc(regs, reg) ==
    CASE reg = "PC" -> [regs EXCEPT !.pc = Word_add(@, from_i32(1))]
      [] reg = "SP" -> [regs EXCEPT !.sp = Word_add(@, from_i32(1))]
      [] OTHER      -> [regs EXCEPT !.general[Register_as_usize[reg]] = Word_add(@, from_i32(1))]

\* Registers::dec with an SP that stays at 0.
Registers_dec_floor(regs, reg) ==
    CASE reg = "PC" -> [regs EXCEPT !.pc = Word_sub(@, from_i32(1))]
      [] reg = "SP" -> [regs EXCEPT !.sp = IF @ = 0 THEN 0 ELSE Word_sub(@, from_i32(1))]
      [] OTHER      -> [regs EXCEPT !.general[Register_as_usize[reg]] = Word_sub(@, from_i32(1))]

Registers_dec(regs, reg) ==
    CASE reg = "PC" -> [regs EXCEPT !.pc = Word_sub(@, from_i32(1))]
      [] reg = "SP" -> [regs EXCEPT !.sp = Word_sub(@, from_i32(1))]
      [] OTHER      -> [regs EXCEPT !.general[Register_as_usize[reg]] = Word_sub(@, from_i32(1))]

(***************************************************************************)
(* Stack (procem/src/stack.rs).                                            *)
(***************************************************************************)

\* The const generic STACK_SIZE of the processor.
STACK_SIZE == 3

Stack_new == [i \in 0..(STACK_SIZE - 1) |-> 0]

\* `self.get(sp.into())` is Some exactly for an index below STACK_SIZE.
Stack_in_bounds(sp) == as_usize(sp) < STACK_SIZE

(***************************************************************************)
(* A processor value threaded through the execution of one instruction:    *)
(* its registers, its stack, and whether a panic has been raised.          *)
(***************************************************************************)

Proc(regs, stk) == [registers |-> regs, stack |-> stk, panicked |-> FALSE]

panic(p) == [p EXCEPT !.panicked = TRUE]

\* Stack::read: the word at sp, or a panic when sp is out of bounds.
Stack_read(p, sp) ==
    IF Stack_in_bounds(sp)
    THEN [panicked |-> FALSE, val |-> p.stack[as_usize(sp)]]
    ELSE [panicked |-> TRUE, val |-> 0]

\* Stack::write: stores value at sp, or panics when sp is out of bounds.
Stack_write(p, sp, value) ==
    IF Stack_in_bounds(sp)
    THEN [p EXCEPT !.stack[as_usize(sp)] = value]
    ELSE panic(p)


(***************************************************************************)
(* Default instruction set (procem_default/src/instruction).               *)
(***************************************************************************)

\* enum Operand<W> { Register(Register), Value(W) }
Reg(r) == [kind |-> "Register", reg |-> r]

Val(w) == [kind |-> "Value", val |-> w]

\* Operand::resolve
resolve(operand, p) ==
    IF operand.kind = "Register" THEN get_reg(p.registers, operand.reg) ELSE operand.val

JumpCondition ==
    {"Unconditional", "Zero", "NotZero", "Carry", "NotCarry", "Signed", "NotSigned",
     "Greater", "Less", "GreaterOrEq", "LessOrEq"}

\* check with Less and Greater decided from S and V together.
check_signed(condition, p) ==
    LET flags == p.registers
    IN  CASE condition = "Unconditional" -> TRUE
          [] condition = "Zero"          -> get_flag(flags, "Z")
          [] condition = "NotZero"       -> ~get_flag(flags, "Z")
          [] condition = "Carry"         -> get_flag(flags, "C")
          [] condition = "NotCarry"      -> ~get_flag(flags, "C")
          [] condition = "Signed"        -> get_flag(flags, "S")
          [] condition = "NotSigned"     -> ~get_flag(flags, "S")
          [] condition = "Greater"       -> ~get_flag(flags, "Z")
                                               /\ get_flag(flags, "S") = get_flag(flags, "V")
          [] condition = "Less"          -> get_flag(flags, "S") # get_flag(flags, "V")
          [] condition = "GreaterOrEq"   -> get_flag(flags, "Z") \/ ~get_flag(flags, "S")
          [] condition = "LessOrEq"      -> get_flag(flags, "Z") \/ get_flag(flags, "S")

\* check with GreaterOrEq decided as a hardware signed comparison would, S = V.
check_with_overflow(condition, p) ==
    LET flags == p.registers
    IN  CASE condition = "Unconditional" -> TRUE
          [] condition = "Zero"          -> get_flag(flags, "Z")
          [] condition = "NotZero"       -> ~get_flag(flags, "Z")
          [] condition = "Carry"         -> get_flag(flags, "C")
          [] condition = "NotCarry"      -> ~get_flag(flags, "C")
          [] condition = "Signed"        -> get_flag(flags, "S")
          [] condition = "NotSigned"     -> ~get_flag(flags, "S")
          [] condition = "Greater"       -> ~get_flag(flags, "Z") /\ ~get_flag(flags, "S")
          [] condition = "Less"          -> ~get_flag(flags, "Z") /\ get_flag(flags, "S")
          [] condition = "GreaterOrEq"   -> get_flag(flags, "S") = get_flag(flags, "V")
          [] condition = "LessOrEq"      -> get_flag(flags, "Z") \/ get_flag(flags, "S")

\* JumpCondition::check
check(condition, p) ==
    LET flags == p.registers
    IN  CASE condition = "Unconditional" -> TRUE
          [] condition = "Zero"          -> get_flag(flags, "Z")
          [] condition = "NotZero"       -> ~get_flag(flags, "Z")
          [] condition = "Carry"         -> get_flag(flags, "C")
          [] condition = "NotCarry"      -> ~get_flag(flags, "C")
          [] condition = "Signed"        -> get_flag(flags, "S")
          [] condition = "NotSigned"     -> ~get_flag(flags, "S")
          [] condition = "Greater"       -> ~get_flag(flags, "Z") /\ ~get_flag(flags, "S")
          [] condition = "Less"          -> ~get_flag(flags, "Z") /\ get_flag(flags, "S")
          [] condition = "GreaterOrEq"   -> get_flag(flags, "Z") \/ ~get_flag(flags, "S")
          [] condition = "LessOrEq"      -> get_flag(flags, "Z") \/ get_flag(flags, "S")

\* enum Instruction<W>: one constructor per variant.
Nop == [op |-> "Nop"]

Mov(to, from) == [op |-> "Mov", to |-> to, from |-> from]

Push(from) == [op |-> "Push", from |-> from]

Pop(to) == [op |-> "Pop", to |-> to]

Call(addr) == [op |-> "Call", addr |-> addr]

Ret == [op |-> "Ret"]

Add(acc, rhs, signed) == [op |-> "Add", acc |-> acc, rhs |-> rhs, signed |-> signed]

Sub(acc, rhs, signed) == [op |-> "Sub", acc |-> acc, rhs |-> rhs, signed |-> signed]

Mul(acc, rhs, signed) == [op |-> "Mul", acc |-> acc, rhs |-> rhs, signed |-> signed]

Div(acc, rhs, signed) == [op |-> "Div", acc |-> acc, rhs |-> rhs, signed |-> signed]

Inc(reg, signed) == [op |-> "Inc", reg |-> reg, signed |-> signed]

Dec(reg, signed) == [op |-> "Dec", reg |-> reg, signed |-> signed]

Jump(to, condition) == [op |-> "Jump", to |-> to, condition |-> condition]

Cmp(lhs, rhs) == [op |-> "Cmp", lhs |-> lhs, rhs |-> rhs]

Xor(reg, rhs) == [op |-> "Xor", reg |-> reg, rhs |-> rhs]

And(reg, rhs) == [op |-> "And", reg |-> reg, rhs |-> rhs]

Or(reg, rhs) == [op |-> "Or", reg |-> reg, rhs |-> rhs]

Not(reg) == [op |-> "Not", reg |-> reg]

Shl(reg, val) == [op |-> "Shl", reg |-> reg, val |-> val]

Shr(reg, val) == [op |-> "Shr", reg |-> reg, val |-> val]

Rol(reg, val) == [op |-> "Rol", reg |-> reg, val |-> val]

Ror(reg, val) == [op |-> "Ror", reg |-> reg, val |-> val]

\* Instruction::mov
mov(to, from, p) == [p EXCEPT !.registers = set_reg(@, to, resolve(from, p))]

\* push with the write made before SP is incremented.
push_write_first(from, p) ==
    LET p1 == Stack_write(p, p.registers.sp, resolve(from, p))
    IN  IF p1.panicked
        THEN p1
        ELSE [p1 EXCEPT !.registers = Registers_inc(@, "SP")]

\* Instruction::push: increment SP, then write the operand's value at the new SP.
push(from, p) ==
    LET p1 == [p EXCEPT !.registers = Registers_inc(@, "SP")]
        sp == p1.registers.sp
    IN  Stack_write(p1, sp, resolve(from, p1))

\* pop with SP decremented before the read.
pop_decrement_first(to, p) ==
    LET p1 == [p EXCEPT !.registers = Registers_dec(@, "SP")]
        sp == p1.registers.sp
        rd == Stack_read(p1, sp)
    IN  IF rd.panicked
        THEN panic(p1)
        ELSE [p1 EXCEPT !.registers = set_reg(@, to, rd.val)]

\* Instruction::pop: read at SP, decrement SP, then set the register.
pop(to, p) ==
    LET sp == p.registers.sp
        rd == Stack_read(p, sp)
    IN  IF rd.panicked
        THEN panic(p)
        ELSE [p EXCEPT !.registers = set_reg(Registers_dec(@, "SP"), to, rd.val)]

\* Instruction::call: push the PC as a value, then set the PC to the address.
call(addr, p) ==
    LET p1 == push(Val(p.registers.pc), p)
    IN  IF p1.panicked
        THEN p1
        ELSE [p1 EXCEPT !.registers = set_reg(@, "PC", resolve(addr, p1))]

\* Instruction::ret
ret(p) == pop("PC", p)

\* jmp with the condition inverted.
jmp_inverted(to, condition, p) ==
    IF ~check(condition, p)
    THEN [p EXCEPT !.registers = set_reg(@, "PC", to)]
    ELSE p

\* Instruction::jmp
jmp(to, condition, p) ==
    IF check(condition, p)
    THEN [p EXCEPT !.registers = set_reg(@, "PC", to)]
    ELSE p

\* set_signed_zero_flags that leaves S as it is for the value 0.
set_signed_zero_flags_stale_sign(val, p) ==
    CASE val < from_i32(0) ->
            [p EXCEPT !.registers = set_flag(set_flag(@, "S", TRUE), "Z", FALSE)]
      [] val = from_i32(0) ->
            [p EXCEPT !.registers = set_flag(@, "Z", TRUE)]
      [] val > from_i32(0) ->
            [p EXCEPT !.registers = set_flag(set_flag(@, "S", FALSE), "Z", FALSE)]

\* set_signed_zero_flags that leaves Z as it is for a negative value.
set_signed_zero_flags_stale_zero(val, p) ==
    CASE val < from_i32(0) ->
            [p EXCEPT !.registers = set_flag(@, "S", TRUE)]
      [] val = from_i32(0) ->
            [p EXCEPT !.registers = set_flag(set_flag(@, "S", FALSE), "Z", TRUE)]
      [] val > from_i32(0) ->
            [p EXCEPT !.registers = set_flag(set_flag(@, "S", FALSE), "Z", FALSE)]

\* Instruction::set_signed_zero_flags
set_signed_zero_flags(val, p) ==
    CASE val < from_i32(0) ->
            [p EXCEPT !.registers = set_flag(set_flag(@, "S", TRUE), "Z", FALSE)]
      [] val = from_i32(0) ->
            [p EXCEPT !.registers = set_flag(set_flag(@, "S", FALSE), "Z", TRUE)]
      [] val > from_i32(0) ->
            [p EXCEPT !.registers = set_flag(set_flag(@, "S", FALSE), "Z", FALSE)]

\* The signed branch shared by add, sub, mul and div: store the result, set V
\* and C, then S and Z from the result.
store_with_flags(acc, result, overflow, carry, p) ==
    set_signed_zero_flags(result,
        [p EXCEPT !.registers =
            set_flag(set_flag(set_reg(@, acc, result), "V", overflow), "C", carry)])

\* Instruction::add
add(acc, rhs, signed, p) ==
    LET a == get_reg(p.registers, acc)
        b == resolve(rhs, p)
    IN  IF signed
        THEN IF overflow_checks /\ check_carry_add_overflows(a, b)
             THEN panic(p)
             ELSE store_with_flags(acc, overflowing_add(a, b)[1], overflowing_add(a, b)[2],
                                   check_carry_add(a, b), p)
        ELSE [p EXCEPT !.registers = set_reg(@, acc, Word_add(a, b))]

\* sub that subtracts the right operand twice.
sub_twice(acc, rhs, signed, p) ==
    LET b == resolve(rhs, p)
        a == Word_sub(get_reg(p.registers, acc), b)
    IN  IF signed
        THEN store_with_flags(acc, overflowing_sub(a, b)[1], overflowing_sub(a, b)[2],
                              check_carry_sub(a, b), p)
        ELSE [p EXCEPT !.registers = set_reg(@, acc, Word_sub(a, b))]

\* Instruction::sub
sub(acc, rhs, signed, p) ==
    LET a == get_reg(p.registers, acc)
        b == resolve(rhs, p)
    IN  IF signed
        THEN store_with_flags(acc, overflowing_sub(a, b)[1], overflowing_sub(a, b)[2],
                              check_carry_sub(a, b), p)
        ELSE [p EXCEPT !.registers = set_reg(@, acc, Word_sub(a, b))]

\* Instruction::mul
mul(acc, rhs, signed, p) ==
    LET a == get_reg(p.registers, acc)
        b == resolve(rhs, p)
    IN  IF signed
        THEN IF overflow_checks /\ check_carry_mul_overflows(a, b)
             THEN panic(p)
             ELSE store_with_flags(acc, overflowing_mul(a, b)[1], overflowing_mul(a, b)[2],
                                   check_carry_mul(a, b), p)
        ELSE [p EXCEPT !.registers = set_reg(@, acc, Word_mul(a, b))]

\* div with a quotient of 0 for the divisor 0.
div_zero_quotient(acc, rhs, signed, p) ==
    LET a == get_reg(p.registers, acc)
        b == resolve(rhs, p)
    IN  IF b = 0
        THEN [p EXCEPT !.registers = set_reg(@, acc, 0)]
        ELSE IF signed
             THEN store_with_flags(acc, overflowing_div(a, b)[1], overflowing_div(a, b)[2],
                                   overflowing_div(a, b)[2], p)
             ELSE [p EXCEPT !.registers = set_reg(@, acc, Word_div(a, b))]

\* Instruction::div: division by zero panics in both branches.
div(acc, rhs, signed, p) ==
    LET a == get_reg(p.registers, acc)
        b == resolve(rhs, p)
    IN  IF b = 0
        THEN panic(p)
        ELSE IF signed
             THEN store_with_flags(acc, overflowing_div(a, b)[1], overflowing_div(a, b)[2],
                                   overflowing_div(a, b)[2], p)
             ELSE [p EXCEPT !.registers = set_reg(@, acc, Word_div(a, b))]

\* Instruction::inc
inc(reg, signed, p) ==
    IF signed
    THEN add(reg, Val(from_i32(1)), TRUE, p)
    ELSE [p EXCEPT !.registers = Registers_inc(@, reg)]

\* Instruction::dec
dec(reg, signed, p) ==
    IF signed
    THEN sub(reg, Val(from_i32(1)), TRUE, p)
    ELSE [p EXCEPT !.registers = Registers_dec(@, reg)]

\* cmp with the operands of the subtraction exchanged.
cmp_exchanged(lhs, rhs, p) ==
    LET a == resolve(rhs, p)
        b == resolve(lhs, p)
        result == overflowing_sub(a, b)[1]
        overflow == overflowing_sub(a, b)[2]
        carry == check_carry_sub(a, b)
    IN  set_signed_zero_flags(result,
            [p EXCEPT !.registers = set_flag(set_flag(@, "V", overflow), "C", carry)])

\* Instruction::cmp
cmp(lhs, rhs, p) ==
    LET a == resolve(lhs, p)
        b == resolve(rhs, p)
        result == overflowing_sub(a, b)[1]
        overflow == overflowing_sub(a, b)[2]
        carry == check_carry_sub(a, b)
    IN  set_signed_zero_flags(result,
            [p EXCEPT !.registers = set_flag(set_flag(@, "V", overflow), "C", carry)])

\* Instruction::xor / and / or / not
xor(reg, rhs, p) ==
    [p EXCEPT !.registers = set_reg(@, reg, Word_bitxor(get_reg(@, reg), resolve(rhs, p)))]

and(reg, rhs, p) ==
    [p EXCEPT !.registers = set_reg(@, reg, Word_bitand(get_reg(@, reg), resolve(rhs, p)))]

or(reg, rhs, p) ==
    [p EXCEPT !.registers = set_reg(@, reg, Word_bitor(get_reg(@, reg), resolve(rhs, p)))]

not(reg, p) == [p EXCEPT !.registers = set_reg(@, reg, Word_not(get_reg(@, reg)))]

\* Instruction::shl / shr
shl(reg, val, p) ==
    IF overflow_checks /\ shift_overflows(val)
    THEN panic(p)
    ELSE [p EXCEPT !.registers = set_reg(@, reg, Word_shl(get_reg(@, reg), val))]

shr(reg, val, p) ==
    IF overflow_checks /\ shift_overflows(val)
    THEN panic(p)
    ELSE [p EXCEPT !.registers = set_reg(@, reg, Word_shr(get_reg(@, reg), val))]

\* Instruction::rol / ror
rol(reg, val, p) ==
    [p EXCEPT !.registers = set_reg(@, reg, rotate_left(get_reg(@, reg), val))]

ror(reg, val, p) ==
    [p EXCEPT !.registers = set_reg(@, reg, rotate_right(get_reg(@, reg), val))]

\* impl InstructionTrait for Instruction: execute
execute(instruction, p) ==
    CASE instruction.op = "Nop"  -> p
      [] instruction.op = "Mov"  -> mov(instruction.to, instruction.from, p)
      [] instruction.op = "Push" -> push(instruction.from, p)
      [] instruction.op = "Pop"  -> pop(instruction.to, p)
      [] instruction.op = "Call" -> call(instruction.addr, p)
      [] instruction.op = "Ret"  -> ret(p)
      [] instruction.op = "Add"  -> add(instruction.acc, instruction.rhs, instruction.signed, p)
      [] instruction.op = "Sub"  -> sub(instruction.acc, instruction.rhs, instruction.signed, p)
      [] instruction.op = "Mul"  -> mul(instruction.acc, instruction.rhs, instruction.signed, p)
      [] instruction.op = "Div"  -> div(instruction.acc, instruction.rhs, instruction.signed, p)
      [] instruction.op = "Inc"  -> inc(instruction.reg, instruction.signed, p)
      [] instruction.op = "Dec"  -> dec(instruction.reg, instruction.signed, p)
      [] instruction.op = "Jump" -> jmp(instruction.to, instruction.condition, p)
      [] instruction.op = "Cmp"  -> cmp(instruction.lhs, instruction.rhs, p)
      [] instruction.op = "Xor"  -> xor(instruction.reg, instruction.rhs, p)
      [] instruction.op = "Or"   -> or(instruction.reg, instruction.rhs, p)
      [] instruction.op = "And"  -> and(instruction.reg, instruction.rhs, p)
      [] instruction.op = "Not"  -> not(instruction.reg, p)
      [] instruction.op = "Shl"  -> shl(instruction.reg, instruction.val, p)
      [] instruction.op = "Shr"  -> shr(instruction.reg, instruction.val, p)
      [] instruction.op = "Rol"  -> rol(instruction.reg, instruction.val, p)
      [] instruction.op = "Ror"  -> ror(instruction.reg, instruction.val, p)


(***************************************************************************)
(* Program and processor (procem/src/program.rs, processor.rs).            *)
(***************************************************************************)

\* No call of assemble has been made.
NoAssembly == [called |-> FALSE]

\* Option<&Program>: None / Some(program).
None == [some |-> FALSE, instructions |-> <<>>]

Some(instructions) == [some |-> TRUE, instructions |-> instructions]

\* Result<(), ProgramError>.
Ok == [kind |-> "Ok", pc |-> 0, program_len |-> 0]

PCOutOfBounds(pc, program_len) ==
    [kind |-> "PCOutOfBounds", pc |-> pc, program_len |-> program_len]

NoProgramLoaded == [kind |-> "NoProgramLoaded", pc |-> 0, program_len |-> 0]

\* What a caller that has not returned (a panic) or has not been made shows.
NoResult == [kind |-> "None", pc |-> 0, program_len |-> 0]

\* Program::fetch_instruction(pc: usize): `self.get(pc)` is Some exactly for
\* pc < len; sequences are indexed from 1 here, slices from 0 there.
fetch_in_bounds(instructions, pc) == pc < Len(instructions)

fetch_instruction(instructions, pc) ==
    IF fetch_in_bounds(instructions, pc)
    THEN [result |-> Ok, instruction |-> instructions[pc + 1]]
    ELSE [result |-> PCOutOfBounds(pc, Len(instructions)), instruction |-> Nop]

\* execute_next_instruction with the instruction executed before the PC is
\* incremented.
execute_next_instruction_execute_first(regs, stk, prog) ==
    IF ~prog.some
    THEN [result |-> NoProgramLoaded, fetched |-> FALSE, instruction |-> Nop,
          after |-> Proc(regs, stk)]
    ELSE LET f == fetch_instruction(prog.instructions, as_usize(regs.pc))
             a == execute(f.instruction, Proc(regs, stk))
         IN  IF f.result # Ok
             THEN [result |-> f.result, fetched |-> FALSE, instruction |-> Nop,
                   after |-> Proc(regs, stk)]
             ELSE [result |-> Ok, fetched |-> TRUE, instruction |-> f.instruction,
                   after |-> [a EXCEPT !.registers = Registers_inc(@, "PC")]]

\* execute_next_instruction with the PC incremented before the fetch, so that
\* a failing fetch leaves the incremented PC behind.
execute_next_instruction_increment_first(regs, stk, prog) ==
    IF ~prog.some
    THEN [result |-> NoProgramLoaded, fetched |-> FALSE, instruction |-> Nop,
          after |-> Proc(regs, stk)]
    ELSE LET f == fetch_instruction(prog.instructions, as_usize(regs.pc))
         IN  IF f.result # Ok
             THEN [result |-> f.result, fetched |-> FALSE, instruction |-> Nop,
                   after |-> Proc(Registers_inc(regs, "PC"), stk)]
             ELSE [result |-> Ok, fetched |-> TRUE, instruction |-> f.instruction,
                   after |-> execute(f.instruction, Proc(Registers_inc(regs, "PC"), stk))]

\* execute_next_instruction without the PC increment.
execute_next_instruction_no_increment(regs, stk, prog) ==
    IF ~prog.some
    THEN [result |-> NoProgramLoaded, fetched |-> FALSE, instruction |-> Nop,
          after |-> Proc(regs, stk)]
    ELSE LET f == fetch_instruction(prog.instructions, as_usize(regs.pc))
         IN  IF f.result # Ok
             THEN [result |-> f.result, fetched |-> FALSE, instruction |-> Nop,
                   after |-> Proc(regs, stk)]
             ELSE [result |-> Ok, fetched |-> TRUE, instruction |-> f.instruction,
                   after |-> execute(f.instruction, Proc(regs, stk))]

\* Processor::execute_next_instruction on the processor (regs, stk, prog): the
\* result returned, the processor afterwards, and whether it panicked.
execute_next_instruction(regs, stk, prog) ==
    IF ~prog.some
    THEN [result |-> NoProgramLoaded, fetched |-> FALSE, instruction |-> Nop,
          after |-> Proc(regs, stk)]
    ELSE LET f == fetch_instruction(prog.instructions, as_usize(regs.pc))
         IN  IF f.result # Ok
             THEN [result |-> f.result, fetched |-> FALSE, instruction |-> Nop,
                   after |-> Proc(regs, stk)]
             ELSE [result |-> Ok, fetched |-> TRUE, instruction |-> f.instruction,
                   after |-> execute(f.instruction, Proc(Registers_inc(regs, "PC"), stk))]

\* The record kept of a step: the call's result (None when it panicked), the
\* instruction fetched, the index it was fetched at, and the state before it.
StepRecord(s, in_run) ==
    [call        |-> "execute_next_instruction",
     in_run      |-> in_run,
     result      |-> IF s.after.panicked THEN NoResult ELSE s.result,
     fetched     |-> s.fetched,
     instruction |-> s.instruction,
     pre         |-> [registers |-> registers, stack |-> stack]]

NoCall ==
    [call        |-> "none",
     in_run      |-> FALSE,
     result      |-> NoResult,
     fetched     |-> FALSE,
     instruction |-> Nop,
     pre         |-> [registers |-> Registers_new, stack |-> Stack_new]]


(***************************************************************************)
(* Characters and text.  A text is a sequence of characters, each a        *)
(* one-character string; the model covers ASCII text, where the byte       *)
(* indices the tokenizer slices by and its character positions coincide.   *)
(***************************************************************************)

LowerCase == <<"a", "b", "c", "d", "e", "f", "g", "h", "i", "j", "k", "l", "m",
               "n", "o", "p", "q", "r", "s", "t", "u", "v", "w", "x", "y", "z">>

UpperCase == <<"A", "B", "C", "D", "E", "F", "G", "H", "I", "J", "K", "L", "M",
               "N", "O", "P", "Q", "R", "S", "T", "U", "V", "W", "X", "Y", "Z">>

Digits == <<"0", "1", "2", "3", "4", "5", "6", "7", "8", "9">>

\* The index of an element in a sequence of distinct elements.
IndexIn(seq, c) == CHOOSE k \in 1..Len(seq) : seq[k] = c

Range(seq) == {seq[k] : k \in 1..Len(seq)}

\* char::is_alphabetic, char::is_numeric, char::is_whitespace on ASCII.
is_alphabetic(c) == c \in Range(LowerCase) \cup Range(UpperCase)

is_numeric(c) == c \in Range(Digits)

is_whitespace(c) == c \in {" ", "\n", "\t", "\r"}

\* char::to_uppercase().next() and str::to_uppercase on ASCII.
char_to_uppercase(c) == IF c \in Range(LowerCase) THEN UpperCase[IndexIn(LowerCase, c)] ELSE c

to_uppercase(text) == [k \in 1..Len(text) |-> char_to_uppercase(text[k])]

\* The printable ASCII characters in code order: from the space (32) to the
\* underscore (95), and from a (97) to the tilde (126).
AsciiLow ==
    <<" ", "!", "\"", "#", "$", "%", "&", "'", "(", ")", "*", "+",
      ",", "-", ".", "/", "0", "1", "2", "3", "4", "5", "6", "7",
      "8", "9", ":", ";", "<", "=", ">", "?", "@", "A", "B", "C",
      "D", "E", "F", "G", "H", "I", "J", "K", "L", "M", "N", "O",
      "P", "Q", "R", "S", "T", "U", "V", "W", "X", "Y", "Z", "[",
      "\\", "]", "^", "_">>

AsciiHigh ==
    <<"a", "b", "c", "d", "e", "f", "g", "h", "i", "j", "k", "l",
      "m", "n", "o", "p", "q", "r", "s", "t", "u", "v", "w", "x",
      "y", "z", "{", "|", "}", "~">>

\* `c as i32`: the Unicode scalar value of an ASCII character.
char_as_i32(c) ==
    CASE c = "\t" -> 9
      [] c = "\n" -> 10
      [] c = "\r" -> 13
      [] c \in Range(AsciiLow) -> 31 + IndexIn(AsciiLow, c)
      [] OTHER -> 96 + IndexIn(AsciiHigh, c)

\* char::to_digit(radix): the digit's value, or -1 for a character that is
\* not a digit of the radix.
to_digit(c, radix) ==
    LET v == CASE c \in Range(Digits) -> IndexIn(Digits, c) - 1
               [] c \in Range(LowerCase) -> 9 + IndexIn(LowerCase, c)
               [] c \in Range(UpperCase) -> 9 + IndexIn(UpperCase, c)
               [] OTHER -> -1
    IN  IF v < radix THEN v ELSE -1

\* The digits of i8::from_str_radix, left to right: an invalid digit or the
\* first step that leaves the word range ends the parse with an error.
RECURSIVE parse_digits(_, _, _, _, _)
parse_digits(text, k, acc, radix, negative) ==
    IF k > Len(text)
    THEN [ok |-> TRUE, val |-> acc]
    ELSE LET d == to_digit(text[k], radix)
             next == IF negative THEN (acc * radix) - d ELSE (acc * radix) + d
         IN  IF d < 0
             THEN [ok |-> FALSE, err |-> "InvalidDigit"]
             ELSE IF next > MAX THEN [ok |-> FALSE, err |-> "PosOverflow"]
             ELSE IF next < MIN THEN [ok |-> FALSE, err |-> "NegOverflow"]
             ELSE parse_digits(text, k + 1, next, radix, negative)

\* Word::from_str_radix: <$type>::from_str_radix(s, radix), with an optional
\* sign before the digits.
from_str_radix(text, radix) ==
    IF Len(text) = 0
    THEN [ok |-> FALSE, err |-> "Empty"]
    ELSE IF text[1] \in {"+", "-"}
         THEN IF Len(text) = 1
              THEN [ok |-> FALSE, err |-> "InvalidDigit"]
              ELSE parse_digits(text, 2, 0, radix, text[1] = "-")
         ELSE parse_digits(text, 1, 0, radix, FALSE)

\* The index converted like a cast: truncated to the width of the word.
try_from_usize_truncating(value) == [ok |-> TRUE, val |-> wrap(value)]

\* TryFrom<usize> for the word: <$type>::try_from(value).
try_from_usize(value) ==
    IF value <= MAX THEN [ok |-> TRUE, val |-> value] ELSE [ok |-> FALSE]

(***************************************************************************)
(* Tokenizer (assembler/src/tokenizer.rs).  Indices are 0-based as in the  *)
(* source; the character at index i of a text is text[i + 1].              *)
(***************************************************************************)

\* enum Token
Token_Label(text) == [kind |-> "Label", text |-> text]

Token_Register(text) == [kind |-> "Register", text |-> text]

Token_Literal(lit) == [kind |-> "Literal", lit |-> lit]

Token_Instruction(text) == [kind |-> "Instruction", text |-> text]

Token_Comma == [kind |-> "Comma"]

Token_End == [kind |-> "End"]

\* enum Literal
Literal_Decimal(text) == [kind |-> "Decimal", text |-> text]

Literal_Binary(text) == [kind |-> "Binary", text |-> text]

Literal_Hexadecimal(text) == [kind |-> "Hexadecimal", text |-> text]

Literal_Octal(text) == [kind |-> "Octal", text |-> text]

Literal_Boolean(b) == [kind |-> "Boolean", value |-> b]

Literal_String(text) == [kind |-> "String", text |-> text]

Literal_Char(c) == [kind |-> "Char", char |-> c]

\* Tokenizer::from
Tokenizer_from(input) ==
    [tokens |-> << >>, curr_idx |-> 0, token_start_idx |-> 0, input |-> input,
     input_len |-> Len(input), errors |-> << >>, panicked |-> FALSE]

\* &input[from..to]: the characters at indices from .. to - 1.
slice(input, from, to) == SubSeq(input, from + 1, to)

\* The current index is inside the input: chars().nth(curr_idx) is Some.
Tokenizer_in_input(t) == t.curr_idx < t.input_len

\* Tokenizer::get_curr_char, for an index inside the input (it panics outside).
get_curr_char(t) == char_to_uppercase(t.input[t.curr_idx + 1])

\* self.tokens.push(token)
Tokenizer_push(t, token) == [t EXCEPT !.tokens = Append(@, token)]

\* Tokenizer::add_error
Tokenizer_add_error(t, err) == [t EXCEPT !.errors = Append(@, err)]

\* A panic inside the tokenizer: get_curr_char outside the input, or a slice
\* whose end lies beyond the input.
Tokenizer_panic(t) == [t EXCEPT !.panicked = TRUE]

\* `while self.curr_idx < self.input_len && <class>(self.get_curr_char()) { self.curr_idx += 1 }`
\* for the classes alphabetic, numeric and not-whitespace.
RECURSIVE Tokenizer_skip(_, _)
Tokenizer_skip(t, class) ==
    IF Tokenizer_in_input(t)
       /\ CASE class = "alphabetic" -> is_alphabetic(get_curr_char(t))
            [] class = "numeric"    -> is_numeric(get_curr_char(t))
            [] class = "token"      -> ~is_whitespace(get_curr_char(t))
    THEN Tokenizer_skip([t EXCEPT !.curr_idx = @ + 1], class)
    ELSE t

\* Tokenizer::set_curr_idx_to_token_end: the index of the last character
\* before the next whitespace.
set_curr_idx_to_token_end(t) ==
    IF ~Tokenizer_in_input(t)
    THEN Tokenizer_panic(t)
    ELSE IF is_whitespace(get_curr_char(t))
         THEN t
         ELSE [Tokenizer_skip(t, "token") EXCEPT !.curr_idx = @ - 1]

\* Tokenizer::expect_label
expect_label(t) ==
    LET t1 == Tokenizer_skip([t EXCEPT !.curr_idx = @ + 1], "alphabetic")
    IN  Tokenizer_push(t1, Token_Label(to_uppercase(slice(t1.input, t1.token_start_idx, t1.curr_idx))))

\* Tokenizer::expect_instruction
expect_instruction(t) ==
    LET t1 == Tokenizer_skip([t EXCEPT !.curr_idx = @ + 1], "alphabetic")
        inst == to_uppercase(slice(t1.input, t1.token_start_idx, t1.curr_idx))
    IN  Tokenizer_push(t1, IF inst = <<"E", "N", "D">> THEN Token_End ELSE Token_Instruction(inst))

\* Tokenizer::expect_register
Tokenizer_expect_register(t) ==
    LET t1 == Tokenizer_skip([t EXCEPT !.curr_idx = @ + 1], "numeric")
    IN  Tokenizer_push(t1, Token_Register(to_uppercase(slice(t1.input, t1.token_start_idx, t1.curr_idx))))

\* Tokenizer::expect_comma
Tokenizer_expect_comma(t) == [Tokenizer_push(t, Token_Comma) EXCEPT !.curr_idx = @ + 1]

\* Tokenizer::expect_char_literal
expect_char_literal(t) ==
    LET t1 == [t EXCEPT !.curr_idx = @ + 1]
        t2 == [t1 EXCEPT !.curr_idx = @ + 1]
    IN  IF ~Tokenizer_in_input(t1) \/ ~Tokenizer_in_input(t2)
        THEN Tokenizer_panic(t2)
        ELSE IF get_curr_char(t2) = "'"
             THEN Tokenizer_push(t2, Token_Literal(Literal_Char(get_curr_char(t1))))
             ELSE Tokenizer_add_error(t2, [kind |-> "InvalidCharLiteral", idx |-> t2.curr_idx])

\* `while self.get_curr_char() != '"' { self.curr_idx += 1 }`: a panic when
\* the input ends before the closing quote.
RECURSIVE Tokenizer_skip_to_quote(_)
Tokenizer_skip_to_quote(t) ==
    IF ~Tokenizer_in_input(t)
    THEN Tokenizer_panic(t)
    ELSE IF get_curr_char(t) = "\""
         THEN t
         ELSE Tokenizer_skip_to_quote([t EXCEPT !.curr_idx = @ + 1])

\* Tokenizer::expect_string_literal
expect_string_literal(t) ==
    LET t1 == Tokenizer_skip_to_quote([t EXCEPT !.curr_idx = @ + 1])
    IN  IF t1.panicked
        THEN t1
        ELSE Tokenizer_push(t1, Token_Literal(Literal_String(
                 slice(t1.input, t1.token_start_idx + 2, t1.curr_idx))))

\* Tokenizer::expect_numeric_literal
expect_numeric_literal(t) ==
    IF get_curr_char(t) = "0"
    THEN LET t1 == [t EXCEPT !.curr_idx = @ + 1, !.token_start_idx = t.curr_idx + 1]
         IN  IF ~Tokenizer_in_input(t1)
             THEN Tokenizer_panic(t1)
             ELSE LET c == get_curr_char(t1)
                      t2 == set_curr_idx_to_token_end(t1)
                      body == slice(t2.input, t2.token_start_idx + 1, t2.curr_idx + 1)
                  IN  CASE c = "B" -> Tokenizer_push(t2, Token_Literal(Literal_Binary(body)))
                        [] c = "X" -> Tokenizer_push(t2, Token_Literal(Literal_Hexadecimal(body)))
                        [] c = "O" -> Tokenizer_push(t2, Token_Literal(Literal_Octal(body)))
                        [] c = "D" -> Tokenizer_push(t2, Token_Literal(Literal_Decimal(body)))
                        [] OTHER   -> Tokenizer_push(t2, Token_Literal(Literal_Decimal(
                                          slice(t2.input, t2.token_start_idx, t2.curr_idx + 1))))
    ELSE LET t2 == set_curr_idx_to_token_end(t)
         IN  Tokenizer_push(t2, Token_Literal(Literal_Decimal(
                 slice(t2.input, t2.token_start_idx + 1, t2.curr_idx + 1))))

\* Tokenizer::expect_boolean_true_literal
expect_boolean_true_literal(t) ==
    LET t1 == [t EXCEPT !.curr_idx = @ + 4]
    IN  IF t1.curr_idx > t1.input_len
        THEN Tokenizer_panic(t1)
        ELSE IF to_uppercase(slice(t1.input, t1.token_start_idx + 1, t1.curr_idx))
                    = <<"T", "R", "U", "E">>
             THEN Tokenizer_push(t1, Token_Literal(Literal_Boolean(TRUE)))
             ELSE Tokenizer_add_error(t1, [kind |-> "InvalidBooleanTrueLiteral",
                                           idx |-> t1.token_start_idx])

\* Tokenizer::expect_boolean_false_literal
expect_boolean_false_literal(t) ==
    LET t1 == [t EXCEPT !.curr_idx = @ + 5]
    IN  IF t1.curr_idx > t1.input_len
        THEN Tokenizer_panic(t1)
        ELSE IF to_uppercase(slice(t1.input, t1.token_start_idx + 1, t1.curr_idx))
                    = <<"F", "A", "L", "S", "E">>
             THEN Tokenizer_push(t1, Token_Literal(Literal_Boolean(FALSE)))
             ELSE Tokenizer_add_error(t1, [kind |-> "InvalidBooleanFalseLiteral",
                                           idx |-> t1.token_start_idx])

\* Tokenizer::expect_literal
expect_literal(t) ==
    LET t1 == [t EXCEPT !.curr_idx = @ + 1]
    IN  IF ~Tokenizer_in_input(t1)
        THEN Tokenizer_panic(t1)
        ELSE LET c == get_curr_char(t1)
                 t2 == CASE c = "'"       -> expect_char_literal(t1)
                         [] c = "\""      -> expect_string_literal(t1)
                         [] is_numeric(c) -> expect_numeric_literal(t1)
                         [] c = "T"       -> expect_boolean_true_literal(t1)
                         [] c = "F"       -> expect_boolean_false_literal(t1)
                         [] OTHER         -> Tokenizer_add_error(t1, [kind |-> "InvalidLiteral",
                                                                      idx |-> t1.curr_idx])
             IN  IF t2.panicked THEN t2 ELSE [t2 EXCEPT !.curr_idx = @ + 1]

\* One iteration of the loop of Tokenizer::run; the tokenizer itself once
\* the loop has ended.
Tokenizer_run_iteration(t) ==
    IF t.panicked \/ ~Tokenizer_in_input(t)
    THEN t
    ELSE LET t1 == [t EXCEPT !.token_start_idx = t.curr_idx]
             c == get_curr_char(t1)
         IN  CASE c = "."          -> expect_label(t1)
               [] c = "R"          -> Tokenizer_expect_register(t1)
               [] c = "#"          -> expect_literal(t1)
               [] c = ","          -> Tokenizer_expect_comma(t1)
               [] is_alphabetic(c) -> expect_instruction(t1)
               [] is_whitespace(c) -> [t1 EXCEPT !.curr_idx = @ + 1]
               [] OTHER            ->
                    Tokenizer_add_error([t1 EXCEPT !.curr_idx = @ + 1],
                        [kind |-> "InvalidTokenStart", start |-> c, idx |-> t1.curr_idx + 1])

\* n iterations of the loop, the first half and then the rest.
RECURSIVE Tokenizer_run_times(_, _)
Tokenizer_run_times(t, n) ==
    IF t.panicked \/ n = 0 THEN t
    ELSE IF n = 1 THEN Tokenizer_run_iteration(t)
    ELSE Tokenizer_run_times(Tokenizer_run_times(t, n \div 2), n - (n \div 2))

\* Tokenizer::run.  Every iteration advances curr_idx, so the loop has ended
\* after input_len iterations.
Tokenizer_run(t) == Tokenizer_run_times(t, t.input_len)

\* Tokenizer::tokenize: Ok(tokens), Err(errors), or a panic.
tokenize(input) ==
    LET t == Tokenizer_run(Tokenizer_from(input))
    IN  IF t.panicked THEN [kind |-> "Panic"]
        ELSE IF t.errors # << >> THEN [kind |-> "Err", errors |-> t.errors]
        ELSE [kind |-> "Ok", tokens |-> t.tokens]

(***************************************************************************)
(* Assembler: mnemonics, parser and entry point                            *)
(* (procem_default/src/instruction/asm_instruction.rs, parser.rs, lib.rs). *)
(***************************************************************************)

\* impl TryFrom<&str> for ASMInstruction
ASMInstruction_try_from(value) ==
    CASE value = <<"A", "D", "D">> -> [ok |-> TRUE, family |-> "RegOperand", instr |-> "Add"]
      [] value = <<"A", "D", "D", "S">> -> [ok |-> TRUE, family |-> "RegOperand", instr |-> "AddS"]
      [] value = <<"A", "N", "D">> -> [ok |-> TRUE, family |-> "RegOperand", instr |-> "And"]
      [] value = <<"C", "A", "L", "L">> -> [ok |-> TRUE, family |-> "SingleOperand", instr |-> "Call"]
      [] value = <<"C", "M", "P">> -> [ok |-> TRUE, family |-> "TwoOperand", instr |-> "Cmp"]
      [] value = <<"D", "E", "C">> -> [ok |-> TRUE, family |-> "SingleReg", instr |-> "Dec"]
      [] value = <<"D", "E", "C", "S">> -> [ok |-> TRUE, family |-> "SingleReg", instr |-> "DecS"]
      [] value = <<"D", "I", "V">> -> [ok |-> TRUE, family |-> "RegOperand", instr |-> "Div"]
      [] value = <<"D", "I", "V", "S">> -> [ok |-> TRUE, family |-> "RegOperand", instr |-> "DivS"]
      [] value = <<"I", "N", "C">> -> [ok |-> TRUE, family |-> "SingleReg", instr |-> "Inc"]
      [] value = <<"I", "N", "C", "S">> -> [ok |-> TRUE, family |-> "SingleReg", instr |-> "IncS"]
      [] value = <<"J", "C">> -> [ok |-> TRUE, family |-> "Jump", instr |-> "Jc"]
      [] value = <<"J", "G">> -> [ok |-> TRUE, family |-> "Jump", instr |-> "Jg"]
      [] value = <<"J", "G", "E">> -> [ok |-> TRUE, family |-> "Jump", instr |-> "Jge"]
      [] value = <<"J", "L">> -> [ok |-> TRUE, family |-> "Jump", instr |-> "Jl"]
      [] value = <<"J", "L", "E">> -> [ok |-> TRUE, family |-> "Jump", instr |-> "Jle"]
      [] value = <<"J", "M", "P">> -> [ok |-> TRUE, family |-> "Jump", instr |-> "Jmp"]
      [] value = <<"J", "N", "C">> -> [ok |-> TRUE, family |-> "Jump", instr |-> "Jnc"]
      [] value = <<"J", "N", "S">> -> [ok |-> TRUE, family |-> "Jump", instr |-> "Jns"]
      [] value = <<"J", "N", "Z">> -> [ok |-> TRUE, family |-> "Jump", instr |-> "Jnz"]
      [] value = <<"J", "S">> -> [ok |-> TRUE, family |-> "Jump", instr |-> "Js"]
      [] value = <<"J", "Z">> -> [ok |-> TRUE, family |-> "Jump", instr |-> "Jz"]
      [] value = <<"M", "O", "V">> -> [ok |-> TRUE, family |-> "RegOperand", instr |-> "Mov"]
      [] value = <<"M", "U", "L">> -> [ok |-> TRUE, family |-> "RegOperand", instr |-> "Mul"]
      [] value = <<"M", "U", "L", "S">> -> [ok |-> TRUE, family |-> "RegOperand", instr |-> "MulS"]
      [] value = <<"N", "O", "P">> -> [ok |-> TRUE, family |-> "NoArg", instr |-> "Nop"]
      [] value = <<"N", "O", "T">> -> [ok |-> TRUE, family |-> "SingleReg", instr |-> "Not"]
      [] value = <<"O", "R">> -> [ok |-> TRUE, family |-> "RegOperand", instr |-> "Or"]
      [] value = <<"P", "O", "P">> -> [ok |-> TRUE, family |-> "SingleReg", instr |-> "Pop"]
      [] value = <<"P", "U", "S", "H">> -> [ok |-> TRUE, family |-> "SingleOperand", instr |-> "Push"]
      [] value = <<"R", "E", "T">> -> [ok |-> TRUE, family |-> "NoArg", instr |-> "Ret"]
      [] value = <<"R", "O", "L">> -> [ok |-> TRUE, family |-> "Rotate", instr |-> "Rol"]
      [] value = <<"R", "O", "R">> -> [ok |-> TRUE, family |-> "Rotate", instr |-> "Ror"]
      [] value = <<"S", "H", "L">> -> [ok |-> TRUE, family |-> "Shift", instr |-> "Shl"]
      [] value = <<"S", "H", "R">> -> [ok |-> TRUE, family |-> "Shift", instr |-> "Shr"]
      [] value = <<"S", "U", "B">> -> [ok |-> TRUE, family |-> "RegOperand", instr |-> "Sub"]
      [] value = <<"S", "U", "B", "S">> -> [ok |-> TRUE, family |-> "RegOperand", instr |-> "SubS"]
      [] value = <<"X", "O", "R">> -> [ok |-> TRUE, family |-> "RegOperand", instr |-> "Xor"]
      [] OTHER -> [ok |-> FALSE]

\* impl FromStr for Register
Register_from_str(value) ==
    CASE value \in {<<"R", "0">>, <<"r", "0">>} -> [ok |-> TRUE, val |-> "R0"]
      [] value \in {<<"R", "1">>, <<"r", "1">>} -> [ok |-> TRUE, val |-> "R1"]
      [] value \in {<<"R", "2">>, <<"r", "2">>} -> [ok |-> TRUE, val |-> "R2"]
      [] value \in {<<"R", "3">>, <<"r", "3">>} -> [ok |-> TRUE, val |-> "R3"]
      [] value \in {<<"R", "4">>, <<"r", "4">>} -> [ok |-> TRUE, val |-> "R4"]
      [] value \in {<<"R", "5">>, <<"r", "5">>} -> [ok |-> TRUE, val |-> "R5"]
      [] value \in {<<"R", "6">>, <<"r", "6">>} -> [ok |-> TRUE, val |-> "R6"]
      [] value \in {<<"R", "7">>, <<"r", "7">>} -> [ok |-> TRUE, val |-> "R7"]
      [] value \in {<<"R", "8">>, <<"r", "8">>} -> [ok |-> TRUE, val |-> "R8"]
      [] value \in {<<"R", "9">>, <<"r", "9">>} -> [ok |-> TRUE, val |-> "R9"]
      [] value \in {<<"R", "1", "0">>, <<"r", "1", "0">>} -> [ok |-> TRUE, val |-> "R10"]
      [] value \in {<<"R", "1", "1">>, <<"r", "1", "1">>} -> [ok |-> TRUE, val |-> "R11"]
      [] value \in {<<"R", "1", "2">>, <<"r", "1", "2">>} -> [ok |-> TRUE, val |-> "R12"]
      [] value \in {<<"R", "1", "3">>, <<"r", "1", "3">>} -> [ok |-> TRUE, val |-> "R13"]
      [] value \in {<<"R", "1", "4">>, <<"r", "1", "4">>} -> [ok |-> TRUE, val |-> "R14"]
      [] value \in {<<"R", "1", "5">>, <<"r", "1", "5">>} -> [ok |-> TRUE, val |-> "R15"]
      [] value \in {<<"P", "C">>, <<"p", "c">>} -> [ok |-> TRUE, val |-> "PC"]
      [] value \in {<<"S", "P">>, <<"s", "p">>} -> [ok |-> TRUE, val |-> "SP"]
      [] OTHER -> [ok |-> FALSE, err |-> [kind |-> "RegisterParsing", input |-> value]]

\* Instruction::from_reg_operand_instruction
from_reg_operand_instruction(instr, lhs, rhs) ==
    CASE instr = "Mov"  -> Mov(lhs, rhs)
      [] instr = "Add"  -> Add(lhs, rhs, FALSE)
      [] instr = "AddS" -> Add(lhs, rhs, TRUE)
      [] instr = "Sub"  -> Sub(lhs, rhs, FALSE)
      [] instr = "SubS" -> Sub(lhs, rhs, TRUE)
      [] instr = "Mul"  -> Mul(lhs, rhs, FALSE)
      [] instr = "MulS" -> Mul(lhs, rhs, TRUE)
      [] instr = "Div"  -> Div(lhs, rhs, FALSE)
      [] instr = "DivS" -> Div(lhs, rhs, TRUE)
      [] instr = "Or"   -> Or(lhs, rhs)
      [] instr = "And"  -> And(lhs, rhs)
      [] instr = "Xor"  -> Xor(lhs, rhs)

\* Instruction::from_single_reg_instruction
from_single_reg_instruction(instr, reg) ==
    CASE instr = "Inc"  -> Inc(reg, FALSE)
      [] instr = "IncS" -> Inc(reg, TRUE)
      [] instr = "Dec"  -> Dec(reg, FALSE)
      [] instr = "DecS" -> Dec(reg, TRUE)
      [] instr = "Not"  -> Not(reg)
      [] instr = "Pop"  -> Pop(reg)

\* Instruction::from_single_operand_instruction
from_single_operand_instruction(instr, operand) ==
    CASE instr = "Call" -> Call(operand)
      [] instr = "Push" -> Push(operand)

\* Instruction::from_two_operand_instruction
from_two_operand_instruction(instr, lhs, rhs) ==
    CASE instr = "Cmp" -> Cmp(lhs, rhs)

\* Instruction::from_shift_instruction
from_shift_instruction(instr, reg, val) ==
    CASE instr = "Shl" -> Shl(reg, val)
      [] instr = "Shr" -> Shr(reg, val)

\* Instruction::from_rotate_instruction
from_rotate_instruction(instr, reg, val) ==
    CASE instr = "Ror" -> Ror(reg, val)
      [] instr = "Rol" -> Rol(reg, val)

\* from_jump_instruction with every jump made unconditional to the index
\* after the label's.
from_jump_instruction_after(instr, dest) == Jump(dest + 1, "Unconditional")

\* Instruction::from_jump_instruction
from_jump_instruction(instr, dest) ==
    Jump(dest, CASE instr = "Jmp" -> "Unconditional"
                 [] instr = "Jz"  -> "Zero"
                 [] instr = "Jnz" -> "NotZero"
                 [] instr = "Jc"  -> "Carry"
                 [] instr = "Jnc" -> "NotCarry"
                 [] instr = "Js"  -> "Signed"
                 [] instr = "Jns" -> "NotSigned"
                 [] instr = "Jg"  -> "Greater"
                 [] instr = "Jl"  -> "Less"
                 [] instr = "Jge" -> "GreaterOrEq"
                 [] instr = "Jle" -> "LessOrEq")

\* The element of a one-element set: Only({e : x \in {v}}) is e with the
\* value v, computed once, named x.
Only(S) == CHOOSE x \in S : TRUE

\* Parser::new.  labels is the HashMap from label text to instruction index;
\* instruction_count is the local of Parser::run.
Parser_new(tokens) ==
    [tokens |-> tokens, instructions |-> << >>, errors |-> << >>, idx |-> 0,
     labels |-> << >>, instruction_count |-> 0]

\* self.tokens.get(self.idx)
Parser_has_token(p) == p.idx < Len(p.tokens)

Parser_token(p) == p.tokens[p.idx + 1]

\* Parser::current_token_string: the token at idx, or "End" past the last one.
current_token_string(p) == IF Parser_has_token(p) THEN Parser_token(p) ELSE Token_End

\* Parser::add_error
Parser_add_error(p, err) == [p EXCEPT !.errors = Append(@, err)]

\* A push that appends the instruction twice.
Parser_push_twice(p, instruction) ==
    [p EXCEPT !.instructions = Append(Append(@, instruction), instruction)]

\* self.instructions.push(instruction)
Parser_push(p, instruction) == [p EXCEPT !.instructions = Append(@, instruction)]

\* The InvalidToken error at the current index.
InvalidToken(p, expected) ==
    [kind |-> "InvalidToken", idx |-> p.idx, expected |-> expected, got |-> current_token_string(p)]

\* Parser::get_next: `self.idx += 1`.
get_next(p) == [p EXCEPT !.idx = @ + 1]

\* convert_lit_to_val with every numeric literal read in base 10.
convert_lit_to_val_decimal(lit) ==
    CASE lit.kind = "Char" -> [ok |-> TRUE, val |-> from_i32(char_as_i32(lit.char))]
      [] lit.kind = "Boolean" -> [ok |-> TRUE, val |-> from_i32(IF lit.value THEN 1 ELSE 0)]
      [] lit.kind \in {"Binary", "Decimal", "Hexadecimal", "Octal"} ->
            LET parsed == from_str_radix(lit.text, 10)
            IN  IF parsed.ok
                THEN parsed
                ELSE [ok |-> FALSE, err |-> [kind |-> "LiteralParsing", cause |-> parsed.err]]
      [] lit.kind = "String" -> [ok |-> FALSE, err |-> [kind |-> "CannotConvertStrToVal"]]

\* convert_lit_to_val with the text of a string literal parsed as a decimal
\* number.
convert_lit_to_val_of_strings(lit) ==
    LET radix == CASE lit.kind = "Binary" -> 2
                   [] lit.kind = "Hexadecimal" -> 16
                   [] lit.kind = "Octal" -> 8
                   [] OTHER -> 10
    IN  CASE lit.kind = "Char" -> [ok |-> TRUE, val |-> from_i32(char_as_i32(lit.char))]
          [] lit.kind = "Boolean" -> [ok |-> TRUE, val |-> from_i32(IF lit.value THEN 1 ELSE 0)]
          [] OTHER ->
                IF from_str_radix(lit.text, radix).ok
                THEN from_str_radix(lit.text, radix)
                ELSE [ok |-> FALSE, err |-> [kind |-> "LiteralParsing",
                                             cause |-> from_str_radix(lit.text, radix).err]]

\* Parser::convert_lit_to_val
convert_lit_to_val(lit) ==
    CASE lit.kind = "Char" -> [ok |-> TRUE, val |-> from_i32(char_as_i32(lit.char))]
      [] lit.kind = "Boolean" -> [ok |-> TRUE, val |-> from_i32(IF lit.value THEN 1 ELSE 0)]
      [] lit.kind \in {"Binary", "Decimal", "Hexadecimal", "Octal"} ->
            LET radix == CASE lit.kind = "Binary" -> 2
                           [] lit.kind = "Decimal" -> 10
                           [] lit.kind = "Hexadecimal" -> 16
                           [] lit.kind = "Octal" -> 8
                parsed == from_str_radix(lit.text, radix)
            IN  IF parsed.ok
                THEN parsed
                ELSE [ok |-> FALSE, err |-> [kind |-> "LiteralParsing", cause |-> parsed.err]]
      [] lit.kind = "String" -> [ok |-> FALSE, err |-> [kind |-> "CannotConvertStrToVal"]]

\* The expect_* helpers return the parser advanced to the next token and
\* either the value read or the error.

\* Parser::expect_register
expect_register(p) ==
    LET p1 == get_next(p)
    IN  IF Parser_has_token(p1) /\ Parser_token(p1).kind = "Register"
        THEN [p |-> p1] @@ Register_from_str(Parser_token(p1).text)
        ELSE [p |-> p1, ok |-> FALSE, err |-> InvalidToken(p1, "Register")]

\* Parser::expect_comma
expect_comma(p) ==
    LET p1 == get_next(p)
    IN  IF Parser_has_token(p1) /\ Parser_token(p1).kind = "Comma"
        THEN [p |-> p1, ok |-> TRUE]
        ELSE [p |-> p1, ok |-> FALSE, err |-> InvalidToken(p1, "Comma")]

\* Parser::expect_operand
expect_operand(p) ==
    LET p1 == get_next(p)
    IN  IF Parser_has_token(p1) /\ Parser_token(p1).kind = "Register"
        THEN LET r == Register_from_str(Parser_token(p1).text)
             IN  IF r.ok
                 THEN [p |-> p1, ok |-> TRUE, val |-> Reg(r.val)]
                 ELSE [p |-> p1] @@ r
        ELSE IF Parser_has_token(p1) /\ Parser_token(p1).kind = "Literal"
        THEN LET v == convert_lit_to_val(Parser_token(p1).lit)
             IN  IF v.ok
                 THEN [p |-> p1, ok |-> TRUE, val |-> Val(v.val)]
                 ELSE [p |-> p1] @@ v
        ELSE [p |-> p1, ok |-> FALSE, err |-> InvalidToken(p1, "Register or Literal")]

\* Parser::expect_word
expect_word(p) ==
    LET p1 == get_next(p)
    IN  IF Parser_has_token(p1) /\ Parser_token(p1).kind = "Literal"
        THEN [p |-> p1] @@ convert_lit_to_val(Parser_token(p1).lit)
        ELSE [p |-> p1, ok |-> FALSE, err |-> InvalidToken(p1, "Literal")]

\* expect_destination with a label not declared so far taken for index 0.
expect_destination_unresolved(p, instr) ==
    LET p1 == get_next(p)
    IN  IF Parser_has_token(p1) /\ Parser_token(p1).kind = "Label"
        THEN Parser_push(p1, from_jump_instruction(instr, 0))
        ELSE Parser_add_error(p1, InvalidToken(p1, "Label"))

\* Parser::expect_destination
expect_destination(p, instr) ==
    LET p1 == get_next(p)
    IN  IF Parser_has_token(p1) /\ Parser_token(p1).kind = "Label"
        THEN LET label == Parser_token(p1).text
             IN  IF label \in DOMAIN p1.labels
                 THEN LET idx == try_from_usize(p1.labels[label])
                      IN  IF idx.ok
                          THEN Parser_push(p1, from_jump_instruction(instr, idx.val))
                          ELSE Parser_add_error(p1, [kind |-> "LabelIndexToWordConversionFailed",
                                                     idx |-> p1.idx, label |-> label])
                 ELSE Parser_add_error(p1, [kind |-> "LabelNotFound", idx |-> p1.idx,
                                            label |-> label])
        ELSE Parser_add_error(p1, InvalidToken(p1, "Label"))

\* Parser::expect_reg_operand_instruction
expect_reg_operand_instruction(p, instr) ==
    Only({IF ~acc.ok THEN Parser_add_error(acc.p, acc.err)
          ELSE Only({IF ~comma.ok THEN Parser_add_error(comma.p, comma.err)
                     ELSE Only({IF ~operand.ok THEN Parser_add_error(operand.p, operand.err)
                                ELSE Parser_push(operand.p,
                                        from_reg_operand_instruction(instr, acc.val, operand.val)) :
                                   operand \in {expect_operand(comma.p)}}) :
                        comma \in {expect_comma(acc.p)}}) :
             acc \in {expect_register(p)}})

\* Parser::expect_single_reg_instruction
expect_single_reg_instruction(p, instr) ==
    Only({IF ~reg.ok THEN Parser_add_error(reg.p, reg.err)
          ELSE Parser_push(reg.p, from_single_reg_instruction(instr, reg.val)) :
             reg \in {expect_register(p)}})

\* Parser::expect_single_operand_instruction
expect_single_operand_instruction(p, instr) ==
    Only({IF ~operand.ok THEN Parser_add_error(operand.p, operand.err)
          ELSE Parser_push(operand.p, from_single_operand_instruction(instr, operand.val)) :
             operand \in {expect_operand(p)}})

\* Parser::expect_two_operand_instruction
expect_two_operand_instruction(p, instr) ==
    Only({IF ~lhs.ok THEN Parser_add_error(lhs.p, lhs.err)
          ELSE Only({IF ~comma.ok THEN Parser_add_error(comma.p, comma.err)
                     ELSE Only({IF ~rhs.ok THEN Parser_add_error(rhs.p, rhs.err)
                                ELSE Parser_push(rhs.p,
                                        from_two_operand_instruction(instr, lhs.val, rhs.val)) :
                                   rhs \in {expect_operand(comma.p)}}) :
                        comma \in {expect_comma(lhs.p)}}) :
             lhs \in {expect_operand(p)}})

\* Parser::expect_shift_instruction
expect_shift_instruction(p, instr) ==
    Only({IF ~register.ok THEN Parser_add_error(register.p, register.err)
          ELSE Only({IF ~comma.ok THEN Parser_add_error(comma.p, comma.err)
                     ELSE Only({IF ~literal.ok THEN Parser_add_error(literal.p, literal.err)
                                ELSE Parser_push(literal.p,
                                        from_shift_instruction(instr, register.val, literal.val)) :
                                   literal \in {expect_word(comma.p)}}) :
                        comma \in {expect_comma(register.p)}}) :
             register \in {expect_register(p)}})

\* Parser::expect_rotate_instruction.  The literal goes through usize to
\* u32; a negative word sign-extends to a usize beyond u32 where usize has
\* 64 bits, the target modelled here.
expect_rotate_instruction(p, instr) ==
    Only({IF ~register.ok THEN Parser_add_error(register.p, register.err)
          ELSE Only({IF ~comma.ok THEN Parser_add_error(comma.p, comma.err)
                     ELSE Only({IF ~literal.ok THEN Parser_add_error(literal.p, literal.err)
                                ELSE IF literal.val < 0
                                THEN Parser_add_error(literal.p,
                                        [kind |-> "CannotConvertLiteralToU32",
                                         literal |-> as_usize(literal.val)])
                                ELSE Parser_push(literal.p,
                                        from_rotate_instruction(instr, register.val, literal.val)) :
                                   literal \in {expect_word(comma.p)}}) :
                        comma \in {expect_comma(register.p)}}) :
             register \in {expect_register(p)}})

\* Parser::parse_instruction
parse_instruction(p, instruction) ==
    Only({IF ~inst.ok
          THEN Parser_add_error(p, [kind |-> "UnknownInstruction", idx |-> p.idx,
                                    inst |-> instruction])
          ELSE CASE inst.family = "NoArg" ->
                      Parser_push(p, IF inst.instr = "Nop" THEN Nop ELSE Ret)
                 [] inst.family = "RegOperand" -> expect_reg_operand_instruction(p, inst.instr)
                 [] inst.family = "Jump" -> expect_destination(p, inst.instr)
                 [] inst.family = "TwoOperand" -> expect_two_operand_instruction(p, inst.instr)
                 [] inst.family = "SingleOperand" ->
                      expect_single_operand_instruction(p, inst.instr)
                 [] inst.family = "SingleReg" -> expect_single_reg_instruction(p, inst.instr)
                 [] inst.family = "Rotate" -> expect_rotate_instruction(p, inst.instr)
                 [] inst.family = "Shift" -> expect_shift_instruction(p, inst.instr) :
             inst \in {ASMInstruction_try_from(instruction)}})

\* A duplicate reported with the two indices exchanged.
Parser_insert_label_exchanged(p, label) ==
    LET inserted == [p EXCEPT !.labels = (label :> p.instruction_count) @@ @]
    IN  IF label \in DOMAIN p.labels
        THEN Parser_add_error(inserted, [kind |-> "DuplicateLabel", idx |-> p.labels[label],
                                         old_idx |-> p.instruction_count])
        ELSE inserted

\* A label bound to the index after the instruction that follows it.
Parser_insert_label_after(p, label) ==
    [p EXCEPT !.labels = (label :> (p.instruction_count + 1)) @@ @]

\* self.labels.insert(label, instruction_count): the binding is replaced, and
\* a label bound before is reported.
Parser_insert_label(p, label) ==
    LET inserted == [p EXCEPT !.labels = (label :> p.instruction_count) @@ @]
    IN  IF label \in DOMAIN p.labels
        THEN Parser_add_error(inserted, [kind |-> "DuplicateLabel", idx |-> p.instruction_count,
                                         old_idx |-> p.labels[label]])
        ELSE inserted

\* One iteration of the loop of Parser::run; the parser itself once the loop
\* has ended or has met End.
Parser_run_iteration(p) ==
    IF ~Parser_has_token(p)
    THEN p
    ELSE Only({CASE token.kind = "Label" ->
                      get_next(Parser_insert_label(p, token.text))
                 [] token.kind = "Instruction" ->
                      get_next([parse_instruction(p, token.text)
                                   EXCEPT !.instruction_count = @ + 1])
                 [] token.kind = "End" -> p
                 [] OTHER ->
                      get_next(Parser_add_error(p, InvalidToken(p, "Label or Instruction"))) :
                  token \in {Parser_token(p)}})

\* n iterations of the loop, the first half and then the rest.
RECURSIVE Parser_run_times(_, _)
Parser_run_times(p, n) ==
    IF ~Parser_has_token(p) \/ n = 0 THEN p
    ELSE IF n = 1 THEN Parser_run_iteration(p)
    ELSE Parser_run_times(Parser_run_times(p, n \div 2), n - (n \div 2))

\* Parser::run.  Every iteration advances idx, so the loop has ended after
\* tokens.len() iterations.
Parser_run(p) == Parser_run_times(p, Len(p.tokens))

\* Parser::parse
parse(tokens) ==
    Only({IF p.errors = << >>
          THEN [kind |-> "Ok", instructions |-> p.instructions]
          ELSE [kind |-> "Err", errors |-> p.errors] :
             p \in {Parser_run(Parser_new(tokens))}})

\* assemble with the parser run on the tokens lexed whatever the tokenizer
\* reported, and the errors of both stages returned together.
assemble_merged(input) ==
    Only({IF t.panicked THEN [kind |-> "Panic"]
          ELSE Only({IF t.errors \o p.errors = << >>
                     THEN [kind |-> "Ok", instructions |-> p.instructions]
                     ELSE [kind |-> "Err", errors |-> t.errors \o p.errors] :
                        p \in {Parser_run(Parser_new(t.tokens))}}) :
             t \in {Tokenizer_run(Tokenizer_from(input))}})

\* assemble: the tokenizer's errors, or else the parser's result.
assemble(input) ==
    Only({IF tokens.kind = "Ok" THEN parse(tokens.tokens) ELSE tokens :
             tokens \in {tokenize(input)}})

(***************************************************************************)
(* Inputs: the processors a host builds and the programs it loads.         *)
(***************************************************************************)

\* Longest run of fetches recorded for one run_program call.
MaxTrace == 8

\* Registers a host builds with the builder: flags in any state, SP at the
\* bottom, below the bottom, or at the top of the stack.
BuiltRegisters ==
    {[Registers_new EXCEPT !.flags = fl, !.sp = sp] :
        fl \in [0..3 -> BOOLEAN], sp \in {-1, 0, STACK_SIZE - 1}}

\* A stack whose cells hold distinct non-zero words.
BuiltStack == [i \in 0..(STACK_SIZE - 1) |-> 10 + i]

JumpTargets == {0, 3, -1}

JumpPrograms ==
    {<<Nop, Jump(to, c)>> : to \in JumpTargets, c \in JumpCondition}
    \cup {<<Jump(2, c), Nop>> : c \in JumpCondition}
    \cup {<<Cmp(Val(a), Val(1)), Jump(3, c), Nop>> : a \in {0, 1, 2}, c \in {"Less", "GreaterOrEq"}}
    \cup {<<Mov("R1", Val(2)), Add("R0", Val(1), FALSE), Sub("R1", Val(1), TRUE),
            Jump(1, "NotZero")>>}

CallPrograms ==
    {<<Call(Val(2)), Nop, Ret>>,
     <<Nop, Call(Val(3)), Nop, Ret>>,
     <<Mov("R0", Val(2)), Call(Reg("R0")), Ret>>,
     <<Call(Reg("PC")), Ret>>,
     <<Call(Reg("SP")), Ret, Ret>>,
     <<Call(Val(1)), Nop>>,
     <<Call(Val(0))>>,
     <<Ret>>}

PushOperands == {Val(7), Val(-1), Reg("R0"), Reg("SP"), Reg("PC")}

PushPopPrograms ==
    {<<Mov("R0", Val(5)), Push(x), Pop(r)>> :
        x \in PushOperands, r \in {"R0", "R1", "SP", "PC"}}
    \cup {<<Push(Val(1)), Push(Val(2)), Push(Val(3)), Push(Val(4))>>,
          <<Pop("R0"), Pop("R1")>>,
          <<Pop("R0"), Push(Val(9)), Pop("R1")>>,
          <<Push(Val(7)), Nop, Pop("R1")>>}

StraightPrograms ==
    {<< >>,
     <<Nop>>,
     <<Nop, Nop, Nop>>,
     <<Mov("R0", Reg("PC"))>>,
     <<Nop, Mov("R0", Reg("PC"))>>,
     <<Nop, Nop, Mov("R1", Reg("PC")), Nop>>,
     <<Mov("R0", Val(10)), Mov("R1", Val(5)), Add("R0", Reg("R1"), FALSE),
       Sub("R0", Val(3), FALSE), Mul("R0", Val(2), FALSE), Div("R0", Val(4), FALSE)>>,
     <<Mov("R0", Val(MAX)), Add("R0", Val(1), TRUE), Cmp(Reg("R0"), Val(MIN))>>,
     <<Div("R0", Val(0), FALSE), Nop>>,
     <<Div("R0", Val(0), TRUE), Nop>>,
     <<Mov("R0", Val(6)), Div("R0", Reg("R1"), FALSE), Nop>>,
     <<Mov("R0", Val(6)), Div("R0", Reg("R1"), TRUE)>>,
     <<Mov("R0", Val(-1)), Add("R0", Val(-1), TRUE), Nop>>,
     <<Mov("R0", Val(-2)), Mul("R0", Val(3), TRUE)>>,
     <<Mov("R0", Val(3)), Shl("R0", Bits), Shr("R0", 1)>>}

PCPrograms ==
    {<<Mov("PC", Val(-1))>>,
     <<Mov("PC", Val(5)), Nop>>,
     <<Inc("PC", FALSE), Nop, Nop>>,
     <<Nop, Dec("PC", FALSE)>>,
     <<Add("PC", Val(1), TRUE), Nop, Nop>>,
     <<Nop, Sub("PC", Val(2), FALSE)>>}

Programs == JumpPrograms \cup CallPrograms \cup PushPopPrograms \cup StraightPrograms \cup PCPrograms

(***************************************************************************)
(* Spec: a host builds a processor, loads a program and drives it with     *)
(* execute_next_instruction and run_program.                               *)
(***************************************************************************)

\* Processor::new(), or builder().with_registers(..).with_stack(..).build().
Init ==
    /\ \/ registers = Registers_new /\ stack = Stack_new
       \/ registers \in BuiltRegisters /\ stack = BuiltStack
    /\ program = None
    /\ overflow_checks \in BOOLEAN
    /\ aborted = FALSE
    /\ running = FALSE
    /\ last = NoCall
    /\ prev = NoCall
    /\ run_result = NoResult
    /\ trace = << >>
    /\ assembly = NoAssembly

\* Processor::load_program.  The host loads before it starts stepping.
LoadProgram ==
    /\ ~aborted /\ ~running
    /\ last.call = "none" /\ run_result = NoResult
    /\ \E instructions \in Programs : program' = Some(instructions)
    /\ UNCHANGED <<registers, stack, overflow_checks, assembly, aborted, running, last, prev, run_result, trace>>

\* The host calls execute_next_instruction once.
ExecuteNextInstruction ==
    /\ ~aborted /\ ~running
    /\ LET s == execute_next_instruction(registers, stack, program)
       IN  /\ registers' = s.after.registers
           /\ stack' = s.after.stack
           /\ aborted' = s.after.panicked
           /\ last' = StepRecord(s, FALSE)
           /\ prev' = last
    /\ UNCHANGED <<program, overflow_checks, assembly, running, run_result, trace>>

\* The host calls run_program: the loop is entered.
RunProgram ==
    /\ ~aborted /\ ~running
    /\ running' = TRUE
    /\ trace' = << >>
    /\ run_result' = NoResult
    /\ UNCHANGED <<registers, stack, program, overflow_checks, assembly, aborted, last, prev>>

\* One iteration of the loop of run_program: `self.execute_next_instruction()?`.
RunProgramLoop ==
    /\ ~aborted /\ running
    /\ Len(trace) < MaxTrace
    /\ LET s == execute_next_instruction(registers, stack, program)
       IN  /\ registers' = s.after.registers
           /\ stack' = s.after.stack
           /\ aborted' = s.after.panicked
           /\ last' = StepRecord(s, TRUE)
           /\ prev' = last
           /\ trace' = IF s.fetched THEN Append(trace, as_usize(registers.pc)) ELSE trace
           /\ IF s.result # Ok
              THEN running' = FALSE /\ run_result' = s.result
              ELSE running' = TRUE /\ run_result' = run_result
    /\ UNCHANGED <<program, overflow_checks, assembly>>

Next == LoadProgram \/ ExecuteNextInstruction \/ RunProgram \/ RunProgramLoop

Spec == Init /\ [][Next]_vars


(***************************************************************************)
(* SpecReload: a host that loads a program at any time between the steps,  *)
(* also over a program it has already stepped.                             *)
(***************************************************************************)

ReloadPrograms ==
    {<<Nop, Mov("R0", Val(1)), Push(Reg("R0"))>>,
     <<Mov("R1", Val(2)), Nop, Pop("R1"), Jump(1, "Unconditional")>>,
     <<Cmp(Reg("R0"), Val(1)), Jump(0, "Less")>>}

\* load_program that also resets the registers and the stack.
Reload_reset ==
    /\ ~aborted /\ ~running
    /\ \E instructions \in ReloadPrograms : program' = Some(instructions)
    /\ registers' = Registers_new
    /\ stack' = Stack_new
    /\ last' = [NoCall EXCEPT !.call = "load_program",
                              !.pre = [registers |-> registers, stack |-> stack]]
    /\ prev' = last
    /\ UNCHANGED <<overflow_checks, assembly, aborted, running, run_result, trace>>

\* Processor::load_program, whatever has been loaded or executed before.
Reload ==
    /\ ~aborted /\ ~running
    /\ \E instructions \in ReloadPrograms : program' = Some(instructions)
    /\ last' = [NoCall EXCEPT !.call = "load_program",
                              !.pre = [registers |-> registers, stack |-> stack]]
    /\ prev' = last
    /\ UNCHANGED <<registers, stack, overflow_checks, assembly, aborted, running, run_result, trace>>

NextReload == Reload \/ ExecuteNextInstruction

SpecReload == Init /\ [][NextReload]_vars

(***************************************************************************)
(* SpecExec: one instruction executed directly on a processor, as the      *)
(* unit tests of the instruction set do (set_reg, then IS::execute).       *)
(***************************************************************************)

\* Operand values at and around the ends of the word range and zero.
Samples == {MIN, MIN + 1, -2, -1, 0, 1, 2, MAX - 1, MAX}

\* Registers set up before the instruction: R0 and R1 hold sample words, the
\* flags are in any state, SP is at the bottom or at the top of the stack.
ExecRegisters ==
    {[Registers_new EXCEPT !.general[0] = a, !.general[1] = b, !.flags = fl, !.sp = sp] :
        a \in Samples, b \in Samples, fl \in [0..3 -> BOOLEAN], sp \in {0, STACK_SIZE - 1}}

ArithmeticOperands == {Reg("R1"), Reg("R0"), Val(1)}

ExecInstructions ==
    {Nop, Ret}
    \cup {Mov(to, from) : to \in {"R0", "PC", "SP"}, from \in {Reg("R1"), Val(3)}}
    \cup {Push(x) : x \in {Reg("R0"), Reg("SP"), Val(7)}}
    \cup {Pop(r) : r \in {"R0", "SP", "PC"}}
    \cup {Call(a) : a \in {Reg("R0"), Val(2)}}
    \cup {Add("R0", r, sg) : r \in ArithmeticOperands, sg \in BOOLEAN}
    \cup {Sub("R0", r, sg) : r \in ArithmeticOperands, sg \in BOOLEAN}
    \cup {Mul("R0", r, sg) : r \in ArithmeticOperands, sg \in BOOLEAN}
    \cup {Div("R0", r, sg) : r \in ArithmeticOperands, sg \in BOOLEAN}
    \cup {Inc(r, sg) : r \in {"R0", "SP"}, sg \in BOOLEAN}
    \cup {Dec(r, sg) : r \in {"R0", "SP"}, sg \in BOOLEAN}
    \cup {Jump(to, c) : to \in {2, -1}, c \in JumpCondition}
    \cup {Cmp(l, r) : l \in {Reg("R0"), Val(1)}, r \in ArithmeticOperands}
    \cup {And("R0", r) : r \in {Reg("R1"), Val(1)}}
    \cup {Or("R0", r) : r \in {Reg("R1"), Val(1)}}
    \cup {Xor("R0", r) : r \in {Reg("R1"), Val(1)}}
    \cup {Not("R0")}
    \cup {Shl("R0", v) : v \in {0, 1, Bits - 1, Bits, -1}}
    \cup {Shr("R0", v) : v \in {0, 1, Bits - 1, Bits, -1}}
    \cup {Rol("R0", v) : v \in {0, 1, Bits, Bits + 1}}
    \cup {Ror("R0", v) : v \in {0, 1, Bits, Bits + 1}}

InitExec ==
    /\ registers \in ExecRegisters
    /\ stack = BuiltStack
    /\ program = None
    /\ overflow_checks \in BOOLEAN
    /\ aborted = FALSE
    /\ running = FALSE
    /\ last = NoCall
    /\ prev = NoCall
    /\ run_result = NoResult
    /\ trace = << >>
    /\ assembly = NoAssembly

\* IS::execute(instruction, &mut processor), once.
Execute ==
    /\ ~aborted
    /\ last.call = "none"
    /\ \E instruction \in ExecInstructions :
         LET after == execute(instruction, Proc(registers, stack))
         IN  /\ registers' = after.registers
             /\ stack' = after.stack
             /\ aborted' = after.panicked
             /\ last' = [call        |-> "execute",
                         in_run      |-> FALSE,
                         result      |-> NoResult,
                         fetched     |-> FALSE,
                         instruction |-> instruction,
                         pre         |-> [registers |-> registers, stack |-> stack]]
             /\ prev' = last
    /\ UNCHANGED <<program, overflow_checks, assembly, running, run_result, trace>>

NextExec == Execute

SpecExec == InitExec /\ [][NextExec]_vars

(***************************************************************************)
(* A third specification: one arithmetic, compare or shift instruction     *)
(* executed on a processor whose R0 and R1 hold any two words, as the unit *)
(* tests of add, sub, mul, div, inc, dec and cmp do for chosen words.      *)
(***************************************************************************)

\* Registers set up before the instruction: R0 = a and R1 = b for all words.
WordRegisters ==
    {[Registers_new EXCEPT !.general[0] = a, !.general[1] = b] : a \in Word, b \in Word}

\* The instructions executed: R0 op R1 in both forms, R0 op immediate in the
\* unsigned form (the immediate is the word R1 holds), Inc and Dec of R0,
\* Cmp of R0 with R1, and shifts of R0 by the amount R1 holds.
WordInstructions(regs) ==
    LET b == regs.general[1]
    IN  {Add("R0", Reg("R1"), sg) : sg \in BOOLEAN}
        \cup {Sub("R0", Reg("R1"), sg) : sg \in BOOLEAN}
        \cup {Mul("R0", Reg("R1"), sg) : sg \in BOOLEAN}
        \cup {Div("R0", Reg("R1"), sg) : sg \in BOOLEAN}
        \cup {Add("R0", Val(b), FALSE), Sub("R0", Val(b), FALSE),
              Mul("R0", Val(b), FALSE), Div("R0", Val(b), FALSE)}
        \cup {Inc("R0", sg) : sg \in BOOLEAN}
        \cup {Dec("R0", sg) : sg \in BOOLEAN}
        \cup {Cmp(Reg("R0"), Reg("R1")), Shl("R0", b), Shr("R0", b)}

InitWord ==
    /\ registers \in WordRegisters
    /\ stack = Stack_new
    /\ program = None
    /\ overflow_checks \in BOOLEAN
    /\ aborted = FALSE
    /\ running = FALSE
    /\ last = NoCall
    /\ prev = NoCall
    /\ run_result = NoResult
    /\ trace = << >>
    /\ assembly = NoAssembly

\* IS::execute(instruction, &mut processor), once, on two chosen words.
ExecuteOnWords ==
    /\ ~aborted
    /\ last.call = "none"
    /\ \E instruction \in WordInstructions(registers) :
         LET after == execute(instruction, Proc(registers, stack))
         IN  /\ registers' = after.registers
             /\ stack' = after.stack
             /\ aborted' = after.panicked
             /\ last' = [call        |-> "execute",
                         in_run      |-> FALSE,
                         result      |-> NoResult,
                         fetched     |-> FALSE,
                         instruction |-> instruction,
                         pre         |-> [registers |-> registers, stack |-> stack]]
             /\ prev' = last
    /\ UNCHANGED <<program, overflow_checks, assembly, running, run_result, trace>>

NextWord == ExecuteOnWords

SpecWord == InitWord /\ [][NextWord]_vars


(***************************************************************************)
(* SpecAsm: a host assembles a source text, or builds a program directly,  *)
(* loads it into a default processor and steps it in a loop or runs it.    *)
(***************************************************************************)

\* Most fetches recorded for one stepping loop or run; later fetches are not
\* recorded.
MaxSteps == 400

\* Most lines of a generated source.
MaxItems == 3

\* A source is a list of lines: a label declaration, an instruction statement
\* or the END terminator.
LabelLine(text) == [kind |-> "label", text |-> text]

InstructionLine(text) == [kind |-> "instruction", text |-> text]

EndLine(text) == [kind |-> "end", text |-> text]

\* The text of a source: its lines, each followed by a line feed.
RECURSIVE Text(_)
Text(items) ==
    IF items = << >> THEN << >>
    ELSE IF Len(items) = 1 THEN items[1].text \o <<"\n">>
    ELSE Text(SubSeq(items, 1, Len(items) \div 2))
            \o Text(SubSeq(items, (Len(items) \div 2) + 1, Len(items)))

Line_a == LabelLine(<<".", "a">>)
Line_b == LabelLine(<<".", "b">>)
Line_input == LabelLine(<<".", "i", "n", "p", "u", "t">>)
Line_loop == LabelLine(<<".", "l", "o", "o", "p">>)
Line_nop == InstructionLine(<<"n", "o", "p">>)
Line_inc == InstructionLine(<<"i", "n", "c", " ", "R", "0">>)
Line_jmp_a == InstructionLine(<<"j", "m", "p", " ", ".", "a">>)
Line_jnz_b == InstructionLine(<<"j", "n", "z", " ", ".", "b">>)
Line_mov_R1_2 == InstructionLine(<<"m", "o", "v", " ", "R", "1", ",", " ", "#", "2">>)
Line_end == EndLine(<<"E", "N", "D">>)

GeneratedLines ==
    {Line_a, Line_b, Line_nop, Line_inc, Line_jmp_a, Line_jnz_b, Line_mov_R1_2, Line_end}

GeneratedSources ==
    UNION {[1..n -> GeneratedLines] : n \in 0..MaxItems}

\* tests/integration.rs, simple_5x2_multiplication.
Source_5x2 ==
    <<Line_input,
      InstructionLine(<<"m", "o", "v", " ", "R", "0", ",", " ", "#", "2">>),
      InstructionLine(<<"a", "d", "d", " ", "R", "1", ",", " ", "R", "0">>),
      InstructionLine(<<"j", "m", "p", " ", ".", "i", "n", "p", "u", "t">>)>>

\* tests/integration.rs, test_overflow_and_flags, with the bounds of the
\* 8-bit word in place of those of the 32-bit word.
Source_overflow ==
    <<InstructionLine(<<"m", "o", "v", " ", "R", "0", ",", " ", "#", "1", "2", "7">>),
      InstructionLine(<<"a", "d", "d", " ", "R", "0", ",", " ", "#", "1">>),
      InstructionLine(<<"c", "m", "p", " ", "R", "0", ",", " ", "#", "-", "1", "2", "8">>)>>

\* The same program with the bound written as a hexadecimal literal.
Source_overflow_hex ==
    <<InstructionLine(<<"m", "o", "v", " ", "R", "0", ",", " ", "#", "1", "2", "7">>),
      InstructionLine(<<"a", "d", "d", " ", "R", "0", ",", " ", "#", "1">>),
      InstructionLine(<<"c", "m", "p", " ", "R", "0", ",", " ", "#", "0", "x", "8", "0">>)>>

\* tests/integration.rs, control_flow_and_labels.
Source_counted_loop ==
    <<InstructionLine(<<"m", "o", "v", " ", "R", "0", ",", " ", "#", "0">>),
      InstructionLine(<<"m", "o", "v", " ", "R", "1", ",", " ", "#", "5">>),
      Line_loop,
      InstructionLine(<<"a", "d", "d", " ", "R", "0", ",", " ", "#", "1">>),
      InstructionLine(<<"s", "u", "b", "s", " ", "R", "1", ",", " ", "#", "1">>),
      InstructionLine(<<"j", "n", "z", " ", ".", "l", "o", "o", "p">>)>>

\* tests/integration.rs, parse_various_literals.
Source_literals ==
    <<InstructionLine(<<"m", "o", "v", " ", "R", "0", ",", " ", "#", "4", "2">>),
      InstructionLine(<<"m", "o", "v", " ", "R", "1", ",", " ", "#", "0", "b", "1", "0", "1", "0", "1", "0">>),
      InstructionLine(<<"m", "o", "v", " ", "R", "2", ",", " ", "#", "0", "x", "2", "A">>),
      InstructionLine(<<"m", "o", "v", " ", "R", "3", ",", " ", "#", "0", "o", "5", "2">>),
      InstructionLine(<<"m", "o", "v", " ", "R", "4", ",", " ", "#", "t", "r", "u", "e">>),
      InstructionLine(<<"m", "o", "v", " ", "R", "5", ",", " ", "#", "f", "a", "l", "s", "e">>),
      InstructionLine(<<"m", "o", "v", " ", "R", "6", ",", " ", "#", "'", "A", "'">>)>>

\* n NOP statements, then a label and a jump to it: the label is bound to n.
Source_long(n) == [k \in 1..n |-> Line_nop] \o <<Line_a, Line_jmp_a>>

\* Statements of every operand shape around labels and a terminator.
Source_shapes ==
    <<InstructionLine(<<"p", "u", "s", "h", " ", "#", "'", "a", "'">>),
      Line_a,
      Line_b,
      InstructionLine(<<"c", "m", "p", " ", "R", "0", ",", " ", "R", "1">>),
      InstructionLine(<<"j", "l", "e", " ", ".", "b">>),
      InstructionLine(<<"s", "h", "l", " ", "R", "0", ",", " ", "#", "1">>),
      InstructionLine(<<"p", "o", "p", " ", "R", "2">>),
      InstructionLine(<<"j", "c", " ", ".", "A">>),
      Line_end,
      Line_nop,
      InstructionLine(<<"r", "e", "t">>)>>

\* The mnemonics that start with R.
Source_ret == <<Line_nop, InstructionLine(<<"r", "e", "t">>)>>

\* A label declared three times, with jumps to it and to a label declared
\* nowhere in between.
Source_duplicates ==
    <<Line_a, Line_nop, Line_a, Line_jmp_a, Line_jnz_b, Line_nop, Line_a, Line_jmp_a>>

\* n NOP statements: a program that can be longer than the word can index.
Source_nops(n) == [k \in 1..n |-> Line_nop]

FixedSources ==
    {Source_5x2, Source_overflow, Source_overflow_hex, Source_counted_loop, Source_shapes,
     Source_ret, Source_literals, Source_duplicates, Source_long(MAX), Source_long(MAX + 1),
     Source_nops(MAX + 1), Source_nops(MAX + 2)}

Sources == GeneratedSources \cup FixedSources

\* The program of control_flow_and_labels as the instructions it stands for,
\* with the loop counter starting at n.
CountedLoop(n) ==
    <<Mov("R0", Val(0)), Mov("R1", Val(n)), Add("R0", Val(1), FALSE), Sub("R1", Val(1), TRUE),
      Jump(2, "NotZero")>>

\* Processor::new().
InitAsm ==
    /\ registers = Registers_new
    /\ stack = Stack_new
    /\ program = None
    /\ overflow_checks \in BOOLEAN
    /\ aborted = FALSE
    /\ running = FALSE
    /\ last = NoCall
    /\ prev = NoCall
    /\ run_result = NoResult
    /\ trace = << >>
    /\ assembly = NoAssembly

\* The host calls assemble on a source text.  A panic of the tokenizer ends
\* the process.
Assemble ==
    /\ ~aborted /\ ~assembly.called /\ ~program.some
    /\ \E items \in Sources :
          LET result == assemble(Text(items))
          IN  /\ assembly' = [called |-> TRUE, items |-> items, source |-> Text(items),
                              result |-> result]
              /\ aborted' = (result.kind = "Panic")
    /\ UNCHANGED <<registers, stack, program, overflow_checks, running, last, prev, run_result, trace>>

\* Processor::load_program with the program assemble returned.
LoadAssembled ==
    /\ ~aborted /\ assembly.called /\ ~program.some
    /\ assembly.result.kind = "Ok"
    /\ program' = Some(assembly.result.instructions)
    /\ UNCHANGED <<registers, stack, overflow_checks, assembly, aborted, running, last, prev, run_result, trace>>

\* Processor::load_program with a program the host built itself.
LoadCountedLoop ==
    /\ ~aborted /\ ~assembly.called /\ ~program.some
    /\ \E n \in 1..MAX : program' = Some(CountedLoop(n))
    /\ UNCHANGED <<registers, stack, overflow_checks, assembly, aborted, running, last, prev, run_result, trace>>

\* The fetches recorded so far and one more, up to MaxSteps of them.
Recorded(fetches, s, pc) ==
    IF s.fetched /\ Len(fetches) < MaxSteps THEN Append(fetches, as_usize(pc)) ELSE fetches

\* One iteration of the host's stepping loop:
\* `assert!(processor.execute_next_instruction().is_ok())`.
StepLoaded ==
    /\ ~aborted /\ ~running /\ program.some
    /\ run_result = NoResult
    /\ last.call = "none" \/ last.result = Ok
    /\ LET s == execute_next_instruction(registers, stack, program)
       IN  /\ registers' = s.after.registers
           /\ stack' = s.after.stack
           /\ aborted' = s.after.panicked
           /\ last' = StepRecord(s, FALSE)
           /\ prev' = last
           /\ trace' = Recorded(trace, s, registers.pc)
    /\ UNCHANGED <<program, overflow_checks, assembly, running, run_result>>

\* The host calls run_program on the freshly loaded program.
RunLoaded ==
    /\ program.some
    /\ last.call = "none" /\ run_result = NoResult
    /\ RunProgram

\* One iteration of the loop of run_program.
RunLoadedLoop ==
    /\ ~aborted /\ running /\ program.some
    /\ LET s == execute_next_instruction(registers, stack, program)
       IN  /\ registers' = s.after.registers
           /\ stack' = s.after.stack
           /\ aborted' = s.after.panicked
           /\ last' = StepRecord(s, TRUE)
           /\ prev' = last
           /\ trace' = Recorded(trace, s, registers.pc)
           /\ IF s.result # Ok
              THEN running' = FALSE /\ run_result' = s.result
              ELSE running' = TRUE /\ run_result' = run_result
    /\ UNCHANGED <<program, overflow_checks, assembly>>

NextAsm ==
    Assemble \/ LoadAssembled \/ LoadCountedLoop \/ StepLoaded \/ RunLoaded \/ RunLoadedLoop

SpecAsm == InitAsm /\ [][NextAsm]_vars

\* SpecLoop: the host loads a counted loop it built and calls run_program.
\* The loop of run_program is sequential code: an iteration that can be made
\* is made.
NextLoop == LoadCountedLoop \/ RunLoaded \/ RunLoadedLoop

SpecLoop == InitAsm /\ [][NextLoop]_vars /\ WF_vars(RunLoadedLoop)

(***************************************************************************)
(* SpecText: a host calls assemble on an arbitrary text.                   *)
(***************************************************************************)

\* Most pieces of a generated text.
MaxPieces == 3

\* The pieces generated texts are made of: starts and ends of literals,
\* separators, a register, statements and characters no token starts with.
Piece_hash == <<"#">>
Piece_zero == <<"0">>
Piece_tr == <<"t", "r">>
Piece_true == <<"t", "r", "u", "e">>
Piece_false == <<"f", "a", "l", "s", "e">>
Piece_apostrophe == <<"'">>
Piece_char == <<"#", "'", "a">>
Piece_quote == <<"\"">>
Piece_space == <<" ">>
Piece_comma == <<",">>
Piece_R0 == <<"R", "0">>
Piece_nop == <<"n", "o", "p">>
Piece_dollar == <<"$">>
Piece_mov == <<"m", "o", "v", " ", "R", "0", ",", " ">>
Piece_X == <<"X">>

Pieces ==
    {Piece_hash, Piece_zero, Piece_tr, Piece_true, Piece_false, Piece_apostrophe, Piece_char, Piece_quote, Piece_space, Piece_comma, Piece_R0, Piece_nop, Piece_dollar, Piece_mov, Piece_X}

\* The pieces of a list one after the other.
RECURSIVE Concat(_)
Concat(pieces) == IF pieces = << >> THEN << >> ELSE pieces[1] \o Concat(Tail(pieces))

GeneratedTexts == {Concat(pieces) : pieces \in UNION {[1..n -> Pieces] : n \in 0..MaxPieces}}

\* The literals of tests/integration.rs, parse_various_literals, and the same
\* with the base prefixes and keywords in the other letter case.
Literals_42 ==
    {<<"#", "4", "2">>,
     <<"#", "0", "b", "1", "0", "1", "0", "1", "0">>,
     <<"#", "0", "B", "1", "0", "1", "0", "1", "0">>,
     <<"#", "0", "x", "2", "A">>,
     <<"#", "0", "x", "2", "a">>,
     <<"#", "0", "X", "2", "A">>,
     <<"#", "0", "X", "2", "a">>,
     <<"#", "0", "o", "5", "2">>,
     <<"#", "0", "O", "5", "2">>,
     <<"#", "0", "d", "4", "2">>,
     <<"#", "0", "D", "4", "2">>}

Literals_true ==
    {<<"#", "t", "r", "u", "e">>,
     <<"#", "T", "R", "U", "E">>,
     <<"#", "T", "r", "u", "e">>,
     <<"#", "t", "R", "u", "E">>}

Literals_false ==
    {<<"#", "f", "a", "l", "s", "e">>,
     <<"#", "F", "A", "L", "S", "E">>,
     <<"#", "F", "a", "l", "s", "e">>,
     <<"#", "f", "A", "l", "S", "e">>}

Literal_A == <<"#", "'", "A", "'">>

\* The statement `mov R0, <literal>` as the whole text, or followed by a
\* line feed or by another statement.
Endings == {<< >>, <<"\n">>, <<" ">> \o Piece_nop}

MovLiteral(literal, ending) == Piece_mov \o literal \o ending

LiteralTexts ==
    {MovLiteral(literal, ending) :
        literal \in Literals_42 \cup Literals_true \cup Literals_false \cup {Literal_A},
        ending \in Endings}

\* The char literal of every printable ASCII character; each fits the word.
CharLiteral(c) == <<"#", "'", c, "'">>

Characters == Range(AsciiLow) \cup Range(AsciiHigh)

CharTexts == {MovLiteral(CharLiteral(c), ending) : c \in Characters, ending \in Endings}

\* tests/integration.rs, invalid_assembly_should_fail.
Text_notanumber == <<"m", "o", "v", " ", "R", "0", ",", " ", "#", "\"", "n", "o", "t", "a", "n", "u", "m", "b", "e", "r", "\"">>

\* String literals in the other places of a numeric operand, one of them
\* with a separator and a digit inside.
StringTexts ==
    {Text_notanumber,
     Text_notanumber \o <<"\n">>,
     <<"p", "u", "s", "h", " ", "#", "\"", "a", "\"">>,
     <<"c", "m", "p", " ", "R", "0", ",", " ", "#", "\"", "4", ",", " ", "2", "\"">>,
     <<"s", "h", "l", " ", "R", "0", ",", " ", "#", "\"", "1", "\"">>}

\* The instruction table of the assembly language: each mnemonic with
\* operands of the kinds listed for it, and the instruction the statement
\* stands for.  Jumps name the label .a, declared at index 0.
InstructionTable ==
    <<[mnemonic |-> <<"N", "O", "P">>, operands |-> << >>,
       instruction |-> Nop],
      [mnemonic |-> <<"R", "E", "T">>, operands |-> << >>,
       instruction |-> Ret],
      [mnemonic |-> <<"M", "O", "V">>, operands |-> <<" ", "R", "0", ",", " ", "#", "1">>,
       instruction |-> Mov("R0", Val(1))],
      [mnemonic |-> <<"A", "D", "D">>, operands |-> <<" ", "R", "0", ",", " ", "#", "1">>,
       instruction |-> Add("R0", Val(1), FALSE)],
      [mnemonic |-> <<"A", "D", "D", "S">>, operands |-> <<" ", "R", "0", ",", " ", "#", "1">>,
       instruction |-> Add("R0", Val(1), TRUE)],
      [mnemonic |-> <<"S", "U", "B">>, operands |-> <<" ", "R", "0", ",", " ", "#", "1">>,
       instruction |-> Sub("R0", Val(1), FALSE)],
      [mnemonic |-> <<"S", "U", "B", "S">>, operands |-> <<" ", "R", "0", ",", " ", "#", "1">>,
       instruction |-> Sub("R0", Val(1), TRUE)],
      [mnemonic |-> <<"M", "U", "L">>, operands |-> <<" ", "R", "0", ",", " ", "#", "1">>,
       instruction |-> Mul("R0", Val(1), FALSE)],
      [mnemonic |-> <<"M", "U", "L", "S">>, operands |-> <<" ", "R", "0", ",", " ", "#", "1">>,
       instruction |-> Mul("R0", Val(1), TRUE)],
      [mnemonic |-> <<"D", "I", "V">>, operands |-> <<" ", "R", "0", ",", " ", "#", "1">>,
       instruction |-> Div("R0", Val(1), FALSE)],
      [mnemonic |-> <<"D", "I", "V", "S">>, operands |-> <<" ", "R", "0", ",", " ", "#", "1">>,
       instruction |-> Div("R0", Val(1), TRUE)],
      [mnemonic |-> <<"A", "N", "D">>, operands |-> <<" ", "R", "0", ",", " ", "#", "1">>,
       instruction |-> And("R0", Val(1))],
      [mnemonic |-> <<"O", "R">>, operands |-> <<" ", "R", "0", ",", " ", "#", "1">>,
       instruction |-> Or("R0", Val(1))],
      [mnemonic |-> <<"X", "O", "R">>, operands |-> <<" ", "R", "0", ",", " ", "#", "1">>,
       instruction |-> Xor("R0", Val(1))],
      [mnemonic |-> <<"C", "M", "P">>, operands |-> <<" ", "R", "0", ",", " ", "#", "1">>,
       instruction |-> Cmp(Reg("R0"), Val(1))],
      [mnemonic |-> <<"I", "N", "C">>, operands |-> <<" ", "R", "0">>,
       instruction |-> Inc("R0", FALSE)],
      [mnemonic |-> <<"I", "N", "C", "S">>, operands |-> <<" ", "R", "0">>,
       instruction |-> Inc("R0", TRUE)],
      [mnemonic |-> <<"D", "E", "C">>, operands |-> <<" ", "R", "0">>,
       instruction |-> Dec("R0", FALSE)],
      [mnemonic |-> <<"D", "E", "C", "S">>, operands |-> <<" ", "R", "0">>,
       instruction |-> Dec("R0", TRUE)],
      [mnemonic |-> <<"N", "O", "T">>, operands |-> <<" ", "R", "0">>,
       instruction |-> Not("R0")],
      [mnemonic |-> <<"P", "O", "P">>, operands |-> <<" ", "R", "0">>,
       instruction |-> Pop("R0")],
      [mnemonic |-> <<"P", "U", "S", "H">>, operands |-> <<" ", "#", "1">>,
       instruction |-> Push(Val(1))],
      [mnemonic |-> <<"C", "A", "L", "L">>, operands |-> <<" ", "#", "1">>,
       instruction |-> Call(Val(1))],
      [mnemonic |-> <<"S", "H", "L">>, operands |-> <<" ", "R", "0", ",", " ", "#", "1">>,
       instruction |-> Shl("R0", 1)],
      [mnemonic |-> <<"S", "H", "R">>, operands |-> <<" ", "R", "0", ",", " ", "#", "1">>,
       instruction |-> Shr("R0", 1)],
      [mnemonic |-> <<"R", "O", "L">>, operands |-> <<" ", "R", "0", ",", " ", "#", "1">>,
       instruction |-> Rol("R0", 1)],
      [mnemonic |-> <<"R", "O", "R">>, operands |-> <<" ", "R", "0", ",", " ", "#", "1">>,
       instruction |-> Ror("R0", 1)],
      [mnemonic |-> <<"J", "M", "P">>, operands |-> <<" ", ".", "a">>,
       instruction |-> Jump(0, "Unconditional")],
      [mnemonic |-> <<"J", "Z">>, operands |-> <<" ", ".", "a">>,
       instruction |-> Jump(0, "Zero")],
      [mnemonic |-> <<"J", "N", "Z">>, operands |-> <<" ", ".", "a">>,
       instruction |-> Jump(0, "NotZero")],
      [mnemonic |-> <<"J", "C">>, operands |-> <<" ", ".", "a">>,
       instruction |-> Jump(0, "Carry")],
      [mnemonic |-> <<"J", "N", "C">>, operands |-> <<" ", ".", "a">>,
       instruction |-> Jump(0, "NotCarry")],
      [mnemonic |-> <<"J", "S">>, operands |-> <<" ", ".", "a">>,
       instruction |-> Jump(0, "Signed")],
      [mnemonic |-> <<"J", "N", "S">>, operands |-> <<" ", ".", "a">>,
       instruction |-> Jump(0, "NotSigned")],
      [mnemonic |-> <<"J", "G">>, operands |-> <<" ", ".", "a">>,
       instruction |-> Jump(0, "Greater")],
      [mnemonic |-> <<"J", "L">>, operands |-> <<" ", ".", "a">>,
       instruction |-> Jump(0, "Less")],
      [mnemonic |-> <<"J", "G", "E">>, operands |-> <<" ", ".", "a">>,
       instruction |-> Jump(0, "GreaterOrEq")],
      [mnemonic |-> <<"J", "L", "E">>, operands |-> <<" ", ".", "a">>,
       instruction |-> Jump(0, "LessOrEq")]>>

\* char::to_lowercase on ASCII.
char_to_lowercase(c) == IF c \in Range(UpperCase) THEN LowerCase[IndexIn(UpperCase, c)] ELSE c

\* A mnemonic in upper case, in lower case, and with only the first letter,
\* or all but the first, in upper case.
LetterCases == {"upper", "lower", "capitalised", "inverted"}

Cased(mnemonic, case) ==
    [k \in 1..Len(mnemonic) |->
        IF case = "upper" \/ (case = "capitalised" /\ k = 1) \/ (case = "inverted" /\ k > 1)
        THEN mnemonic[k]
        ELSE char_to_lowercase(mnemonic[k])]

\* The text of the statement of a table entry; the label a jump names is
\* declared on the line before.
StatementText(entry, case) ==
    (IF entry.instruction.op = "Jump" THEN <<".", "a", "\n">> ELSE << >>)
        \o Cased(entry.mnemonic, case) \o entry.operands \o <<"\n">>

MnemonicTexts ==
    {StatementText(InstructionTable[k], case) : k \in 1..Len(InstructionTable), case \in LetterCases}

\* The registers of the assembly language and their names.
RegisterNames ==
    <<[register |-> "R0", text |-> <<"R", "0">>],
      [register |-> "R1", text |-> <<"R", "1">>],
      [register |-> "R2", text |-> <<"R", "2">>],
      [register |-> "R3", text |-> <<"R", "3">>],
      [register |-> "R4", text |-> <<"R", "4">>],
      [register |-> "R5", text |-> <<"R", "5">>],
      [register |-> "R6", text |-> <<"R", "6">>],
      [register |-> "R7", text |-> <<"R", "7">>],
      [register |-> "R8", text |-> <<"R", "8">>],
      [register |-> "R9", text |-> <<"R", "9">>],
      [register |-> "R10", text |-> <<"R", "1", "0">>],
      [register |-> "R11", text |-> <<"R", "1", "1">>],
      [register |-> "R12", text |-> <<"R", "1", "2">>],
      [register |-> "R13", text |-> <<"R", "1", "3">>],
      [register |-> "R14", text |-> <<"R", "1", "4">>],
      [register |-> "R15", text |-> <<"R", "1", "5">>],
      [register |-> "PC", text |-> <<"P", "C">>],
      [register |-> "SP", text |-> <<"S", "P">>]>>

\* `mov <register>, #1` and `push <register>`, the name in the given case.
MovTo(name, case) == <<"m", "o", "v", " ">> \o Cased(name, case) \o <<",", " ", "#", "1", "\n">>

PushOf(name, case) == <<"p", "u", "s", "h", " ">> \o Cased(name, case) \o <<"\n">>

RegisterTexts ==
    UNION {{MovTo(RegisterNames[k].text, case), PushOf(RegisterNames[k].text, case)} :
              k \in 1..Len(RegisterNames), case \in {"upper", "lower"}}

\* The decimal digits of a natural number.
RECURSIVE DigitsOf(_)
DigitsOf(n) ==
    IF n < 10 THEN <<Digits[n + 1]>> ELSE DigitsOf(n \div 10) \o <<Digits[(n % 10) + 1]>>

\* Shift amounts written as literals: the decimal literals from #1 to twice
\* the bit width, and zero, one and a negative amount in other forms.
ShiftLiterals ==
    {<<"#">> \o DigitsOf(n) : n \in 1..(2 * Bits)}
        \cup {<<"#", "0", "0">>,
     <<"#", "0", "d", "0">>,
     <<"#", "0", "x", "0">>,
     <<"#", "f", "a", "l", "s", "e">>,
     <<"#", "t", "r", "u", "e">>,
     <<"#", "-", "1">>,
     <<"#", "0", "b", "1", "0", "0", "0">>,
     <<"#", "1", "0", "0">>}

ShiftText(mnemonic, literal) == mnemonic \o <<" ", "R", "0", ",", " ">> \o literal \o <<"\n">>

ShiftTexts ==
    {ShiftText(mnemonic, literal) :
        mnemonic \in {<<"s", "h", "l">>, <<"s", "h", "r">>}, literal \in ShiftLiterals}

\* Texts that end in the middle of a literal.
TruncatedTexts ==
    {<<"#">>,
     <<"#", "0">>,
     <<"#", "\"", "a", "b", "c">>,
     <<"#", "'">>,
     <<"#", "'", "a">>,
     <<"#", "t", "r">>,
     <<"#", "f", "a", "l">>,
     <<"#", "t">>,
     <<"#", "f">>,
     <<"m", "o", "v", " ", "R", "0", ",", " ", "#", "0">>,
     <<"p", "u", "s", "h", " ", "#", "\"", "a", "\n", "p", "o", "p", " ", "R", "0", "\n">>}

\* Literals that begin #T or #F: the keywords, and texts that are not.
BooleanLiterals ==
    {<<"#", "t", "r", "u", "e">>,
     <<"#", "T", "R", "U", "E">>,
     <<"#", "T", "r", "u", "e">>,
     <<"#", "T", "R", "U", "E", "X">>,
     <<"#", "t", "r", "u", "e", "x">>,
     <<"#", "t", "r", "u", "e", "s">>,
     <<"#", "T", "R", "U">>,
     <<"#", "t", "r">>,
     <<"#", "t">>,
     <<"#", "t", "r", "e", "e">>,
     <<"#", "f", "a", "l", "s", "e">>,
     <<"#", "F", "A", "L", "S", "E">>,
     <<"#", "F", "a", "l", "s", "e">>,
     <<"#", "F", "A", "L", "S", "E", "X">>,
     <<"#", "f", "a", "l", "s", "e", "x">>,
     <<"#", "F", "A", "L", "S">>,
     <<"#", "f", "a", "l">>,
     <<"#", "f">>,
     <<"#", "f", "a", "l", "l", "s">>}

\* What follows such a literal: a space or a line feed, and a statement, so
\* that no text ends inside the literal.
BooleanEndings == {<<" ">> \o Piece_nop \o <<"\n">>, <<"\n">> \o Piece_nop \o <<"\n">>}

\* A boolean literal directly followed by a comma.
Text_cmp_true == <<"c", "m", "p", " ", "#", "t", "r", "u", "e", ",", " ", "R", "0">>

Text_cmp_false == <<"c", "m", "p", " ", "#", "f", "a", "l", "s", "e", ",", " ", "R", "0">>

BooleanTexts ==
    {literal \o ending : literal \in BooleanLiterals, ending \in BooleanEndings}
        \cup {Text_cmp_true, Text_cmp_false}

\* Sources that assemble, with their programs, and texts put after an END
\* that follows them: statements, tokens out of place, a character no token
\* starts with, an invalid literal and a literal cut short.
EndSources ==
    <<[text |-> << >>, program |-> << >>],
      [text |-> <<"n", "o", "p">>, program |-> <<Nop>>],
      [text |-> <<".", "a", "\n", "m", "o", "v", " ", "R", "0", ",", " ", "#", "1", "\n", "j", "m", "p", " ", ".", "a">>,
       program |-> <<Mov("R0", Val(1)), Jump(0, "Unconditional")>>]>>

TrailingTexts ==
    {<< >>,
     <<"n", "o", "p">>,
     <<"i", "n", "c", " ", "R", "0", "\n", ".", "a", "\n", "j", "m", "p", " ", ".", "b", "\n">>,
     <<"R", "0", " ", ",", " ", ",">>,
     <<"E", "N", "D">>,
     <<"$">>,
     <<"#", "-", "1">>,
     <<"#">>}

EndText(text, trailing) == text \o <<" ", "E", "N", "D", " ">> \o trailing

EndTexts ==
    {EndText(EndSources[k].text, trailing) : k \in 1..Len(EndSources), trailing \in TrailingTexts}
        \cup {EndSources[k].text : k \in 1..Len(EndSources)}

\* Numeric literals with a leading 0 and no base prefix, with their decimal
\* values, and the whitespace that follows them.
ZeroLiterals ==
    <<[literal |-> <<"#", "0">>, value |-> 0],
      [literal |-> <<"#", "0", "0">>, value |-> 0],
      [literal |-> <<"#", "0", "0", "7">>, value |-> 7],
      [literal |-> <<"#", "0", "9">>, value |-> 9],
      [literal |-> <<"#", "0", "1", "0">>, value |-> 10]>>

WhitespaceEndings == {<<"\n">>, <<" ">> \o Piece_nop, <<"\n">> \o Piece_nop}

ZeroTexts ==
    {MovLiteral(ZeroLiterals[k].literal, ending) :
        k \in 1..Len(ZeroLiterals), ending \in WhitespaceEndings}

FixedTexts == LiteralTexts \cup CharTexts \cup StringTexts \cup MnemonicTexts
        \cup RegisterTexts \cup ShiftTexts \cup TruncatedTexts
        \cup BooleanTexts \cup EndTexts \cup ZeroTexts

Texts == GeneratedTexts \cup FixedTexts

\* The host calls assemble on a text.  The record keeps what each stage
\* returned: Tokenizer::tokenize on the text and, when it returned tokens,
\* Parser::parse on them.  A panic of the tokenizer ends the process.
AssembleText ==
    /\ ~aborted /\ ~assembly.called /\ ~program.some
    /\ \E text \in Texts :
          LET tokens == tokenize(text)
              parsed == IF tokens.kind = "Ok" THEN parse(tokens.tokens) ELSE [kind |-> "NotRun"]
              result == assemble(text)
          IN  /\ assembly' = [called |-> TRUE, items |-> << >>, source |-> text,
                              tokens |-> tokens, parsed |-> parsed, result |-> result]
              /\ aborted' = (result.kind = "Panic")
    /\ UNCHANGED <<registers, stack, program, overflow_checks, running, last, prev, run_result, trace>>

NextText == AssembleText

SpecText == InitAsm /\ [][NextText]_vars

(***************************************************************************)
(* Properties.                                                             *)
(***************************************************************************)

\* The last call was execute_next_instruction and it returned Ok.
StepOk == last.call = "execute_next_instruction" /\ last.result = Ok

\* The last call was execute_next_instruction and it returned an error.
StepFailed ==
    last.call = "execute_next_instruction"
    /\ last.result.kind \in {"NoProgramLoaded", "PCOutOfBounds"}

\* The instruction names PC as its destination, or is a jump, call or return.
WritesPC(i) ==
    \/ i.op \in {"Jump", "Call", "Ret"}
    \/ i.op \in {"Mov", "Pop"} /\ i.to = "PC"
    \/ i.op \in {"Add", "Sub", "Mul", "Div"} /\ i.acc = "PC"
    \/ i.op \in {"Inc", "Dec", "Xor", "And", "Or", "Not", "Shl", "Shr", "Rol", "Ror"}
       /\ i.reg = "PC"

IsRegister(operand, r) == operand.kind = "Register" /\ operand.reg = r

\* The PC, taken as an index, lies outside the loaded program (or none is loaded).
PCOutside(regs, prog) ==
    ~prog.some \/ ~(regs.pc >= 0 /\ regs.pc < Len(prog.instructions))

\* The jump condition table of the specification, over the four flags.
ConditionTable(c, fC, fS, fV, fZ) ==
    CASE c = "Unconditional" -> TRUE
      [] c = "Zero"          -> fZ
      [] c = "NotZero"       -> ~fZ
      [] c = "Carry"         -> fC
      [] c = "NotCarry"      -> ~fC
      [] c = "Signed"        -> fS
      [] c = "NotSigned"     -> ~fS
      [] c = "Greater"       -> ~fZ /\ ~fS
      [] c = "Less"          -> ~fZ /\ fS
      [] c = "GreaterOrEq"   -> fZ \/ ~fS
      [] c = "LessOrEq"      -> fZ \/ fS

TableOn(c, regs) ==
    ConditionTable(c, regs.flags[0], regs.flags[1], regs.flags[2], regs.flags[3])

\* C1: a successful step executes the instruction at the pre-step PC, the
\* instruction sees PC = pre-step PC + 1 while it runs (Mov r, PC stores it,
\* Push PC and Call push it), and an instruction that does not write PC
\* leaves PC = pre-step PC + 1.
C1_FetchIncrementExecute ==
    StepOk =>
        LET i == last.pre.registers.pc
            instr == last.instruction
        IN  /\ i >= 0 /\ i < Len(program.instructions)
            /\ instr = program.instructions[i + 1]
            /\ (instr.op = "Mov" /\ IsRegister(instr.from, "PC"))
                   => get_reg(registers, instr.to) = i + 1
            /\ (instr.op = "Push" /\ IsRegister(instr.from, "PC"))
                   => stack[registers.sp] = i + 1
            /\ instr.op = "Call" => stack[last.pre.registers.sp + 1] = i + 1
            /\ ~WritesPC(instr) => registers.pc = i + 1

C1_Witness ==
    /\ StepOk
    /\ last.instruction = Mov("R1", Reg("PC"))
    /\ last.pre.registers.pc = 2
    /\ registers.general[1] = 3
    /\ registers.pc = 3

\* C2: a step fails exactly when no program is loaded (NoProgramLoaded) or
\* the PC as an index is not below the program length (PCOutOfBounds with
\* that index and the length; a negative PC is out of bounds); a failing step
\* changes no register, flag or stack cell, and the step after it fails with
\* the same error.
C2_FailingStepState ==
    last.call = "execute_next_instruction" =>
        LET pc == last.pre.registers.pc
            n == Len(program.instructions)
            index == IF pc < 0 THEN (2 ^ UsizeBits) + pc ELSE pc
        IN  /\ last.result.kind \in {"Ok", "None", "NoProgramLoaded", "PCOutOfBounds"}
            /\ (last.result.kind = "NoProgramLoaded") <=> ~program.some
            /\ (last.result.kind = "PCOutOfBounds")
                   <=> (program.some /\ ~(pc >= 0 /\ pc < n))
            /\ last.result.kind = "PCOutOfBounds" => last.result = PCOutOfBounds(index, n)
            /\ last.result.kind = "NoProgramLoaded" => last.result = NoProgramLoaded
            /\ StepFailed =>
                   /\ registers = last.pre.registers
                   /\ stack = last.pre.stack
                   /\ ~aborted

C2_RepeatedStep ==
    (StepFailed /\ prev' = last) =>
        /\ last'.result = last.result
        /\ registers' = registers
        /\ stack' = stack

C2_FailingStep == []C2_FailingStepState /\ [][C2_RepeatedStep]_vars

C2_Witness ==
    /\ StepFailed
    /\ last.pre.registers.pc = -1
    /\ last.result = PCOutOfBounds((2 ^ UsizeBits) - 1, 1)
    /\ prev.call = "execute_next_instruction"
    /\ prev.result = last.result


\* No instruction of the program writes PC.
StraightLine(instructions) ==
    \A k \in 1..Len(instructions) : ~WritesPC(instructions[k])

\* run_program has been called and has returned.
RunReturned == ~running /\ run_result # NoResult

\* The PC, as an index, at which the current / last run_program call began.
RunStartIndex == IF trace = << >> THEN as_usize(registers.pc) ELSE trace[1]

\* The indices 0, 1, ..., n - 1 in order.
Ascending(n) == [k \in 1..n |-> k - 1]

\* What every run_program call satisfies: it returns only an error, the one
\* of its last step, and only with the PC outside the program.
C3_ReturnsFirstError ==
    RunReturned =>
        /\ run_result.kind \in {"PCOutOfBounds", "NoProgramLoaded"}
        /\ StepFailed
        /\ last.result = run_result
        /\ PCOutside(registers, program)

\* While the loop runs, an iteration returns exactly when the PC is outside
\* the program (or no program is loaded).
C3_LoopStep == running => ((~running') <=> PCOutside(registers, program))

C3_RunState ==
    /\ C3_ReturnsFirstError
    /\ (program.some /\ StraightLine(program.instructions) /\ RunStartIndex = 0
        /\ (running \/ RunReturned) /\ ~aborted)
           => LET n == Len(program.instructions)
              IN  /\ trace = Ascending(Len(trace))
                  /\ running => registers.pc = Len(trace)
                  /\ RunReturned =>
                         /\ trace = Ascending(n)
                         /\ run_result = PCOutOfBounds(n, n)

C4_Jump ==
    (StepOk /\ last.instruction.op = "Jump") =>
        LET i == last.pre.registers.pc
            holds == TableOn(last.instruction.condition, last.pre.registers)
        IN  /\ registers.pc = IF holds THEN last.instruction.to ELSE i + 1
            /\ registers.general = last.pre.registers.general
            /\ registers.sp = last.pre.registers.sp
            /\ registers.flags = last.pre.registers.flags
            /\ stack = last.pre.stack

C4_Witness ==
    /\ StepOk
    /\ last.instruction = Jump(-1, "LessOrEq")
    /\ last.pre.registers.pc = 1
    /\ ~TableOn("LessOrEq", last.pre.registers)
    /\ last.pre.registers.flags[0] /\ last.pre.registers.flags[2]
    /\ registers.pc = 2


\* The last call was a direct execution of an instruction that did not panic.
Executed == last.call = "execute" /\ ~aborted

\* C5: JumpCondition::check agrees with the table on every combination of
\* the four flags, for each of the eleven conditions, and V influences none:
\* a Jump executed on flags f is taken exactly when the table says so.
C5_ConditionTable ==
    /\ \A c \in JumpCondition :
           /\ check(c, Proc(registers, stack)) = TableOn(c, registers)
           /\ \A v \in BOOLEAN :
                  check(c, Proc(set_flag(registers, "V", v), stack))
                      = check(c, Proc(registers, stack))
    /\ (Executed /\ last.instruction.op = "Jump") =>
           /\ TableOn(last.instruction.condition, last.pre.registers)
                  => registers.pc = last.instruction.to
           /\ ~TableOn(last.instruction.condition, last.pre.registers)
                  => registers.pc = last.pre.registers.pc

C5_Witness ==
    /\ Executed
    /\ last.instruction = Jump(2, "GreaterOrEq")
    /\ last.pre.registers.flags = [i \in 0..3 |-> i # 0]
    /\ registers.pc = 2


\* The last two calls were steps that returned Ok: a `first` instruction and
\* then, immediately after it, a `second` one.
Consecutive(first, second) ==
    /\ StepOk
    /\ last.instruction.op = second
    /\ prev.call = "execute_next_instruction"
    /\ prev.result = Ok
    /\ prev.instruction.op = first

\* C6: a Call at index i executed with SP + 1 inside the stack and followed
\* immediately by a Ret leaves PC = i + 1 and SP as before the Call, and
\* changes no general register and no flag.
C6_CallRet ==
    (Consecutive("Call", "Ret") /\ Stack_in_bounds(prev.pre.registers.sp + 1)) =>
        /\ registers.pc = prev.pre.registers.pc + 1
        /\ registers.sp = prev.pre.registers.sp
        /\ registers.general = prev.pre.registers.general
        /\ registers.flags = prev.pre.registers.flags

C6_Witness ==
    /\ Consecutive("Call", "Ret")
    /\ prev.instruction = Call(Val(3))
    /\ prev.pre.registers.pc = 1
    /\ prev.pre.registers.sp = -1
    /\ last.pre.registers.pc = 3
    /\ registers.pc = 2
    /\ registers.sp = -1

\* The value a step's Push of operand x stores, from the state before the
\* step: PC has been incremented by the step, SP by the Push itself.
PushedValue(x, pre) ==
    IF x.kind = "Value" THEN x.val
    ELSE CASE x.reg = "SP" -> wrap(pre.registers.sp + 1)
           [] x.reg = "PC" -> wrap(pre.registers.pc + 1)
           [] OTHER        -> pre.registers.general[Register_as_usize[x.reg]]

\* Two stacks differ at most in the cell at index sp.
SameExceptAt(stk1, stk2, sp) ==
    \A j \in DOMAIN stk1 : j # as_usize(sp) => stk1[j] = stk2[j]

\* A step's Push x: SP is incremented, then the value of x is stored there.
PushStep ==
    (StepOk /\ last.instruction.op = "Push") =>
        LET pre == last.pre
        IN  /\ registers.sp = wrap(pre.registers.sp + 1)
            /\ stack[as_usize(registers.sp)] = PushedValue(last.instruction.from, pre)
            /\ SameExceptAt(stack, pre.stack, registers.sp)
            /\ registers.general = pre.registers.general
            /\ registers.flags = pre.registers.flags

\* Pushes and the Push-Pop pair, as the claim states them.
PushPopPair ==
    (Consecutive("Push", "Pop") /\ last.instruction.to # "SP") =>
        /\ get_reg(registers, last.instruction.to)
               = PushedValue(prev.instruction.from, prev.pre)
        /\ registers.sp = prev.pre.registers.sp
        /\ SameExceptAt(stack, prev.pre.stack, last.pre.registers.sp)

\* A step's Pop r read in the order "stack[SP] into r, then SP - 1".
PopReadThenDecrement ==
    (StepOk /\ last.instruction.op = "Pop") =>
        LET pre == last.pre
            val == pre.stack[as_usize(pre.registers.sp)]
            fetched == [pre.registers EXCEPT !.pc = wrap(@ + 1)]
            written == set_reg(fetched, last.instruction.to, val)
        IN  /\ registers = [written EXCEPT !.sp = wrap(@ - 1)]
            /\ stack = pre.stack

\* A step's Pop r in the order read, SP - 1, write r: Pop SP leaves SP equal
\* to the value read.
PopReadDecrementWrite ==
    (StepOk /\ last.instruction.op = "Pop") =>
        LET pre == last.pre
            val == pre.stack[as_usize(pre.registers.sp)]
            fetched == [pre.registers EXCEPT !.pc = wrap(@ + 1)]
            decremented == [fetched EXCEPT !.sp = wrap(@ - 1)]
        IN  /\ registers = set_reg(decremented, last.instruction.to, val)
            /\ stack = pre.stack

\* C7 as stated: Push x sets SP to SP + 1 and then stores x at stack[SP];
\* Pop r reads stack[SP] into r and then decrements SP; Push x then Pop r,
\* r other than SP, gives r the value of x, restores SP and changes no
\* other stack cell.
C7_Original == PushStep /\ PopReadThenDecrement /\ PushPopPair

\* C7: Push x sets SP to SP + 1 and then stores the value of x at stack[SP]
\* (an operand naming SP pushes the incremented value); Pop r reads stack[SP],
\* decrements SP and then writes the value read to r, so that Pop SP leaves
\* SP equal to the value read; Push x immediately followed by Pop r, r other
\* than SP, leaves r equal to the value of x, SP as before the Push and every
\* stack cell other than the one written unchanged.
C7_PushPop == PushStep /\ PopReadDecrementWrite /\ PushPopPair

C7_Witness ==
    /\ Consecutive("Push", "Pop")
    /\ prev.instruction = Push(Reg("SP"))
    /\ last.instruction = Pop("R1")
    /\ prev.pre.registers.sp = 0
    /\ prev.pre.registers.general[1] # 1
    /\ stack[1] = 1
    /\ registers.general[1] = 1
    /\ registers.sp = 0

\* The instruction is one of the flag-setting arithmetic forms.
SignedArithmetic(i) ==
    i.op \in {"Add", "Sub", "Mul", "Div", "Inc", "Dec"} /\ i.signed

\* The register a flag-setting arithmetic instruction stores its result in.
Destination(i) == IF i.op \in {"Inc", "Dec"} THEN i.reg ELSE i.acc

\* The value of an operand in the state before a direct execution.
ValueBefore(x, pre) ==
    IF x.kind = "Value" THEN x.val
    ELSE CASE x.reg = "SP" -> pre.registers.sp
           [] x.reg = "PC" -> pre.registers.pc
           [] OTHER        -> pre.registers.general[Register_as_usize[x.reg]]

\* S and Z describe the sign of k.
SignZeroOf(k) ==
    /\ get_flag(registers, "S") <=> k < 0
    /\ get_flag(registers, "Z") <=> k = 0
    /\ k > 0 => ~get_flag(registers, "S") /\ ~get_flag(registers, "Z")

\* C8: after a signed Add, Sub, Mul, Div, Inc or Dec whose stored result is
\* k, and after a Cmp whose discarded difference is k, S is true iff k < 0,
\* Z is true iff k = 0, and both are false when k > 0.
C8_SignZero ==
    /\ (Executed /\ SignedArithmetic(last.instruction)) =>
           SignZeroOf(get_reg(registers, Destination(last.instruction)))
    /\ (Executed /\ last.instruction.op = "Cmp") =>
           SignZeroOf(wrap(ValueBefore(last.instruction.lhs, last.pre)
                           - ValueBefore(last.instruction.rhs, last.pre)))

C8_Witness ==
    /\ Executed
    /\ last.instruction = Mul("R0", Val(1), TRUE)
    /\ last.pre.registers.general[0] = -2
    /\ last.pre.registers.flags[3] /\ ~last.pre.registers.flags[1]
    /\ registers.general[0] = -2
    /\ registers.flags[1] /\ ~registers.flags[3]

\* C9: only the signed arithmetic forms and Cmp change flags; every other
\* instruction, the unsigned arithmetic forms included, leaves C, S, V and Z
\* as they were, whatever the flags and operands before.
C9_FlagsFrame ==
    (Executed /\ ~SignedArithmetic(last.instruction) /\ last.instruction.op # "Cmp") =>
        registers.flags = last.pre.registers.flags

C9_Witness ==
    /\ Executed
    /\ last.instruction = Add("R0", Val(1), FALSE)
    /\ last.pre.registers.general[0] = MAX
    /\ last.pre.registers.flags = [i \in 0..3 |-> TRUE]
    /\ registers.general[0] = MIN
    /\ registers.flags = [i \in 0..3 |-> TRUE]

\* The state a signed Sub of b from a register holding a leaves, started
\* from the state before the last execution.
SignedSubOf(a, b) ==
    sub("R0", Val(b), TRUE, Proc(set_reg(last.pre.registers, "R0", a), last.pre.stack))

\* C10: Cmp(a, b) leaves the four flags as a signed Sub of b from a register
\* holding a would, and changes no general register, not PC, not SP and no
\* stack cell; after Cmp with a = b the flags are C, S, V false and Z true.
C10_CmpAsSub ==
    (last.call = "execute" /\ last.instruction.op = "Cmp") =>
        LET a == ValueBefore(last.instruction.lhs, last.pre)
            b == ValueBefore(last.instruction.rhs, last.pre)
        IN  /\ ~aborted
            /\ ~SignedSubOf(a, b).panicked
            /\ registers.flags = SignedSubOf(a, b).registers.flags
            /\ registers.general = last.pre.registers.general
            /\ registers.pc = last.pre.registers.pc
            /\ registers.sp = last.pre.registers.sp
            /\ stack = last.pre.stack
            /\ a = b => /\ ~get_flag(registers, "C") /\ ~get_flag(registers, "S")
                        /\ ~get_flag(registers, "V") /\ get_flag(registers, "Z")

C10_Witness ==
    /\ Executed
    /\ last.instruction = Cmp(Reg("R0"), Reg("R1"))
    /\ last.pre.registers.general[0] = MIN
    /\ last.pre.registers.general[1] = MIN
    /\ last.pre.registers.flags = [i \in 0..3 |-> i # 3]
    /\ registers.flags = [i \in 0..3 |-> i = 3]

\* The instruction is one of the flag-setting forms of the given operations.
SignedForm(i, ops) == i.op \in ops /\ i.signed

\* r is the exact result x reduced modulo 2^Bits into [MIN, MAX].
ReducedFrom(r, x) == r \in Word /\ (r - x) % (2 ^ Bits) = 0

C12_UnsignedCarry ==
    (Executed /\ SignedForm(last.instruction, {"Add"})) =>
        LET a == ValueBefore(Reg(last.instruction.acc), last.pre)
            b == ValueBefore(last.instruction.rhs, last.pre)
        IN  get_flag(registers, "C") <=> (as_unsigned(a) + as_unsigned(b) > (2 ^ Bits) - 1)

\* A signed Add of 100 and 100: the unsigned sum 200 fits in Bits bits, and
\* C is set nevertheless.
C12_Witness ==
    /\ Executed
    /\ last.instruction = Add("R0", Reg("R1"), TRUE)
    /\ last.pre.registers.general[0] = 100
    /\ last.pre.registers.general[1] = 100
    /\ as_unsigned(100) + as_unsigned(100) <= (2 ^ Bits) - 1
    /\ get_flag(registers, "C")

\* C13: after a signed Sub or a Cmp of a and b, C is true iff a read as an
\* unsigned integer of Bits bits is smaller than b read the same way (a
\* borrow): Cmp(1, 2) sets C and Cmp(2, 1) clears it.
C13_Borrow ==
    /\ (Executed /\ SignedForm(last.instruction, {"Sub"})) =>
           LET a == ValueBefore(Reg(last.instruction.acc), last.pre)
               b == ValueBefore(last.instruction.rhs, last.pre)
           IN  get_flag(registers, "C") <=> (as_unsigned(a) < as_unsigned(b))
    /\ (Executed /\ last.instruction.op = "Cmp") =>
           LET a == ValueBefore(last.instruction.lhs, last.pre)
               b == ValueBefore(last.instruction.rhs, last.pre)
           IN  /\ get_flag(registers, "C") <=> (as_unsigned(a) < as_unsigned(b))
               /\ (a = 1 /\ b = 2) => get_flag(registers, "C")
               /\ (a = 2 /\ b = 1) => ~get_flag(registers, "C")

C13_Witness ==
    /\ Executed
    /\ last.instruction = Cmp(Reg("R0"), Reg("R1"))
    /\ last.pre.registers.general[0] = 1
    /\ last.pre.registers.general[1] = 2
    /\ ~get_flag(last.pre.registers, "C")
    /\ get_flag(registers, "C")

\* C14: the word operations other than division by zero are total, so that
\* executing a signed Add, Sub, Mul, Inc or Dec, a Cmp, or a Shl or Shr, on
\* any operands and any shift amount, never aborts execution.
C14_Total ==
    (/\ last.call = "execute"
     /\ \/ SignedForm(last.instruction, {"Add", "Sub", "Mul", "Inc", "Dec"})
        \/ last.instruction.op \in {"Cmp", "Shl", "Shr"})
    => ~aborted

\* A signed Add of -1 and -1 under overflow checks: the sum of the two
\* sign-extended operands overflows u128 in check_carry_add.
C14_Witness ==
    /\ last.call = "execute"
    /\ last.instruction = Add("R0", Reg("R1"), TRUE)
    /\ last.pre.registers.general[0] = -1
    /\ last.pre.registers.general[1] = -1
    /\ overflow_checks
    /\ aborted

\* The instruction is one of the forms of the given operations that set no flag.
UnsignedForm(i, ops) == i.op \in ops /\ ~i.signed

\* The quotient of a by b # 0 truncated toward zero: the remainder is smaller
\* in magnitude than b and is zero or has the sign of a.
Truncated(a, b) ==
    CHOOSE q \in MIN..(-MIN) :
        LET r == a - (q * b)
        IN  /\ (IF r < 0 THEN -r ELSE r) < (IF b < 0 THEN -b ELSE b)
            /\ r = 0 \/ ((r < 0) = (a < 0))

\* The exact result of an arithmetic instruction on a and b.
Exact(i, a, b) ==
    CASE i.op = "Add" -> a + b
      [] i.op = "Sub" -> a - b
      [] i.op = "Mul" -> a * b
      [] i.op = "Div" -> Truncated(a, b)
      [] i.op = "Inc" -> a + 1
      [] i.op = "Dec" -> a - 1

\* C15: unsigned Add, Sub, Mul, Div, Inc and Dec store the two's-complement
\* wrapped result for all operands, with a register or an immediate as right
\* operand: MAX + 1 = MIN, MIN - 1 = MAX, 80 * 2 = -96, -80 * 2 = 96,
\* MIN / -1 = MIN, and division truncates toward zero (3 / 2 = 1, 3 / 4 = 0,
\* -10 / 5 = -2).
C15_UnsignedWrap ==
    (Executed /\ UnsignedForm(last.instruction, {"Add", "Sub", "Mul", "Div", "Inc", "Dec"})) =>
        LET i == last.instruction
            a == ValueBefore(Reg(Destination(i)), last.pre)
            b == IF i.op \in {"Inc", "Dec"} THEN 1 ELSE ValueBefore(i.rhs, last.pre)
            r == get_reg(registers, Destination(i))
        IN  /\ ReducedFrom(r, Exact(i, a, b))
            /\ (i.op \in {"Add", "Inc"} /\ a = MAX /\ b = 1) => r = MIN
            /\ (i.op \in {"Sub", "Dec"} /\ a = MIN /\ b = 1) => r = MAX
            /\ (i.op = "Mul" /\ a = 80 /\ b = 2) => r = -96
            /\ (i.op = "Mul" /\ a = -80 /\ b = 2) => r = 96
            /\ (i.op = "Div" /\ a = MIN /\ b = -1) => r = MIN
            /\ (i.op = "Div" /\ a = 3 /\ b = 2) => r = 1
            /\ (i.op = "Div" /\ a = 3 /\ b = 4) => r = 0
            /\ (i.op = "Div" /\ a = -10 /\ b = 5) => r = -2

C15_Witness ==
    /\ Executed
    /\ last.instruction = Mul("R0", Val(2), FALSE)
    /\ last.pre.registers.general[0] = -80
    /\ registers.general[0] = 96
    /\ registers.flags = last.pre.registers.flags

(***************************************************************************)
(* Assembled programs (SpecAsm).                                           *)
(***************************************************************************)

\* The processor holds the program assembled from the given source.
Assembled(items) == assembly.called /\ assembly.items = items /\ program.some

\* The host has stepped the loaded program n times, every step recorded.
Stepped(n) ==
    /\ ~running /\ run_result = NoResult
    /\ IF n = 0
       THEN last.call = "none"
       ELSE last.call = "execute_next_instruction" /\ ~last.in_run /\ Len(trace) = n

Program_5x2 == <<Mov("R0", Val(2)), Add("R1", Reg("R0"), FALSE), Jump(0, "Unconditional")>>

\* C16, assembling: the source of simple_5x2_multiplication yields exactly
\* Program_5x2.
C16_Assembles ==
    (assembly.called /\ assembly.items = Source_5x2)
        => assembly.result = [kind |-> "Ok", instructions |-> Program_5x2]

\* C16, stepping: each of the first 15 steps returns Ok; the 14th leaves
\* R1 = 10 and PC = 2, the 15th leaves PC = 0.
C16_Steps ==
    \A n \in 1..15 :
        (Assembled(Source_5x2) /\ Stepped(n)) =>
            /\ ~aborted
            /\ last.result = Ok
            /\ (n = 14 => get_reg(registers, "R1") = 10 /\ get_reg(registers, "PC") = 2)
            /\ (n = 15 => get_reg(registers, "PC") = 0)

\* C16, no end: the PC stays inside the program, no step fails and
\* run_program has not returned.
C16_Inside ==
    Assembled(Source_5x2) =>
        /\ ~aborted
        /\ as_usize(registers.pc) < Len(program.instructions)
        /\ last.call = "execute_next_instruction" => last.result = Ok
        /\ run_result = NoResult

\* C16: Assembling `.input / mov R0, #2 / add R1, R0 / jmp .input` yields
\* [Mov R0 <- 2, unsigned Add R1 += R0, Jump Unconditional to 0]; stepped
\* from a default processor the first 14 steps succeed and leave R1 = 10,
\* PC = 2, the 15th succeeds and leaves PC = 0; the PC never leaves the
\* program, and a run_program call on it, once looping, keeps looping.
C16_FiveTimesTwo ==
    /\ [](C16_Assembles /\ C16_Steps /\ C16_Inside)
    /\ [][(Assembled(Source_5x2) /\ running) => running']_vars

\* Fifteen steps of the assembled program have been made: PC is back at 0.
C16_Witness ==
    /\ Assembled(Source_5x2) /\ Stepped(15)
    /\ program.instructions = Program_5x2
    /\ get_reg(registers, "R1") = 10 /\ get_reg(registers, "PC") = 0

\* The processor holds the counted loop that starts R1 at n.
CountedLoopLoaded(n) == ~assembly.called /\ program = Some(CountedLoop(n))

\* How many of the recorded fetches were of the instruction at index k.
Fetches(k) == Cardinality({i \in 1..Len(trace) : trace[i] = k})

\* C17, the result: once run_program has returned on the counted loop from
\* n, it returned PCOutOfBounds, each instruction of the body was executed n
\* times, the two initialisations once, and R0 = n, R1 = 0, Z is set.
C17_Result ==
    \A n \in 1..MAX :
        CountedLoopLoaded(n) =>
            /\ ~aborted
            /\ RunReturned =>
                  /\ run_result = PCOutOfBounds(5, 5)
                  /\ Fetches(0) = 1 /\ Fetches(1) = 1
                  /\ Fetches(2) = n /\ Fetches(3) = n /\ Fetches(4) = n
                  /\ get_reg(registers, "R0") = n
                  /\ get_reg(registers, "R1") = 0
                  /\ get_flag(registers, "Z")

\* C17: run_program on [Mov R0 <- 0, Mov R1 <- n, unsigned Add R0 += 1,
\* signed Sub R1 -= 1, Jump NotZero to 2], n in 1..MAX (the test has n = 5),
\* from a default processor returns, with PCOutOfBounds, after exactly n
\* executions of the loop body, leaving R0 = n, R1 = 0 and Z set.
C17_CountedLoop ==
    /\ []C17_Result
    /\ (running /\ \E n \in 1..MAX : CountedLoopLoaded(n)) ~> RunReturned

\* run_program has returned on the loop counting from 5.
C17_Witness ==
    /\ CountedLoopLoaded(5) /\ RunReturned
    /\ Fetches(2) = 5
    /\ get_reg(registers, "R0") = 5 /\ get_flag(registers, "Z")

Program_overflow == <<Mov("R0", Val(MAX)), Add("R0", Val(1), FALSE), Cmp(Reg("R0"), Val(MIN))>>

\* C18: Assembling `mov R0, #MAX / add R0, #1 / cmp R0, #MIN`, the bounds
\* written as decimal literals (#127 and #-128 for the 8-bit word), succeeds
\* with the negative literal read as the immediate MIN, and running the
\* program ends with R0 = MIN and Z set.
C18_NegativeLiteral ==
    (assembly.called /\ assembly.items = Source_overflow) =>
        /\ assembly.result.kind = "Ok"
        /\ assembly.result.instructions = Program_overflow
        /\ (program.some /\ RunReturned) =>
              get_reg(registers, "R0") = MIN /\ get_flag(registers, "Z")

\* assemble has returned on that source, with the tokenizer's InvalidLiteral
\* at the character after `#`.
C18_Witness ==
    /\ assembly.called /\ assembly.items = Source_overflow
    /\ assembly.result.kind = "Err"
    /\ assembly.result.errors[1] = [kind |-> "InvalidLiteral", idx |-> 33]
    /\ ~program.some

\* assemble has returned a program.
AssembleOk == assembly.called /\ assembly.result.kind = "Ok"

IsInstructionLine(line) == line.kind = "instruction"

\* The lines of a source before its first END.
BeforeEnd(items) ==
    LET ends == {k \in 1..Len(items) : items[k].kind = "end"}
    IN  IF ends = {} THEN items
        ELSE SubSeq(items, 1, (CHOOSE k \in ends : \A j \in ends : k <= j) - 1)

\* The instruction statements of a source before its first END, in order.
Statements(items) == SelectSeq(BeforeEnd(items), IsInstructionLine)

\* The mnemonic of a statement: its text up to the first space, in upper case.
Mnemonic(line) ==
    LET spaces == {k \in 1..Len(line.text) : line.text[k] = " "}
    IN  to_uppercase(IF spaces = {} THEN line.text
                     ELSE SubSeq(line.text, 1, (CHOOSE k \in spaces : \A j \in spaces : k <= j) - 1))

\* The instruction variant each mnemonic of the sources stands for.
VariantOf(mnemonic) ==
    CASE mnemonic = <<"N", "O", "P">> -> "Nop"
      [] mnemonic = <<"M", "O", "V">> -> "Mov"
      [] mnemonic \in {<<"A", "D", "D">>, <<"A", "D", "D", "S">>} -> "Add"
      [] mnemonic \in {<<"S", "U", "B">>, <<"S", "U", "B", "S">>} -> "Sub"
      [] mnemonic \in {<<"I", "N", "C">>, <<"I", "N", "C", "S">>} -> "Inc"
      [] mnemonic = <<"C", "M", "P">> -> "Cmp"
      [] mnemonic = <<"P", "U", "S", "H">> -> "Push"
      [] mnemonic = <<"P", "O", "P">> -> "Pop"
      [] mnemonic = <<"S", "H", "L">> -> "Shl"
      [] mnemonic[1] = "J" -> "Jump"
      [] OTHER -> "None"

\* C19: When assemble succeeds, the program has one instruction for each
\* instruction statement of the source before any END, in source order and
\* of the statement's mnemonic; label declarations and label operands add
\* none.
C19_OnePerMnemonic ==
    AssembleOk =>
        LET statements == Statements(assembly.items)
            instructions == assembly.result.instructions
        IN  /\ Len(instructions) = Len(statements)
            /\ \A k \in 1..Len(statements) :
                  instructions[k].op = VariantOf(Mnemonic(statements[k]))

\* A source with label declarations, label operands and statements after an
\* END has been assembled into its six instructions.
C19_Witness ==
    /\ AssembleOk /\ assembly.items = Source_shapes
    /\ Len(Statements(Source_shapes)) = 6
    /\ Len(assembly.result.instructions) = 6

\* A jump statement: an instruction line whose mnemonic starts with J.
IsJumpLine(line) == line.kind = "instruction" /\ Mnemonic(line)[1] = "J"

\* The label a jump statement names: its text after the first space, in
\* upper case.
JumpLabel(line) ==
    LET space == CHOOSE k \in 1..Len(line.text) :
                    line.text[k] = " " /\ \A j \in 1..(k - 1) : line.text[j] # " "
    IN  to_uppercase(SubSeq(line.text, space + 1, Len(line.text)))

\* The declarations of a label before line k.
DeclaredBefore(lines, k, label) ==
    {j \in 1..(k - 1) : lines[j].kind = "label" /\ to_uppercase(lines[j].text) = label}

\* The number of instruction statements before line k: the 0-based index of
\* the instruction at or after line k.
InstructionIndex(lines, k) == Cardinality({j \in 1..(k - 1) : lines[j].kind = "instruction"})

\* The jump statements, before any END, that name a label declared earlier.
BackwardJumps(lines) ==
    {k \in 1..Len(lines) : IsJumpLine(lines[k]) /\ DeclaredBefore(lines, k, JumpLabel(lines[k])) # {}}

\* The index the label of the jump at line k was bound to by its last
\* declaration before the jump.
LabelIndex(lines, k) ==
    LET declared == DeclaredBefore(lines, k, JumpLabel(lines[k]))
    IN  InstructionIndex(lines, CHOOSE j \in declared : \A i \in declared : i <= j)

\* assemble reported a label index that does not fit the word.
ConversionFailed ==
    /\ assembly.called /\ assembly.result.kind = "Err"
    /\ \E k \in 1..Len(assembly.result.errors) :
          assembly.result.errors[k].kind = "LabelIndexToWordConversionFailed"

\* In an assembled program every jump to a label declared earlier targets
\* the number of instruction statements before the label's declaration.
C20_Targets ==
    AssembleOk =>
        LET lines == BeforeEnd(assembly.items)
        IN  \A k \in BackwardJumps(lines) :
               LET instruction == assembly.result.instructions[InstructionIndex(lines, k) + 1]
               IN  instruction.op = "Jump" /\ instruction.to = LabelIndex(lines, k)

\* The claim as stated: every jump to a label declared earlier assembles to
\* the jump to the label's index, whatever the index.
C20_Original == C20_Targets /\ ~ConversionFailed

\* C20: A label is bound to the number of instruction statements before its
\* declaration (declaring a label does not advance it), and every jump to a
\* label declared earlier assembles to Jump { to: that index } when the
\* index is at most the word's MAX; with a greater index the jump is
\* rejected with LabelIndexToWordConversionFailed and assemble fails.
C20_LabelIndex ==
    /\ C20_Targets
    /\ assembly.called =>
          LET lines == BeforeEnd(assembly.items)
              beyond == {k \in BackwardJumps(lines) : LabelIndex(lines, k) > MAX}
          IN  /\ beyond # {} => ~AssembleOk
              /\ ConversionFailed => beyond # {}

\* Both cases: two labels declared in a row are bound to the same index and
\* jumped to, or the label after MAX instructions is jumped to.
C20_Witness ==
    /\ AssembleOk
    /\ \/ /\ assembly.items = Source_shapes
          /\ assembly.result.instructions[3] = Jump(1, "LessOrEq")
          /\ assembly.result.instructions[6] = Jump(1, "Carry")
       \/ /\ assembly.items = Source_long(MAX)
          /\ assembly.result.instructions[MAX + 1] = Jump(MAX, "Unconditional")

\* The jump statements, before any END, that name a label not declared on an
\* earlier line: declared only later, or never.
ForwardJumps(lines) ==
    {k \in 1..Len(lines) : IsJumpLine(lines[k]) /\ DeclaredBefore(lines, k, JumpLabel(lines[k])) = {}}

\* The elements of a finite set of numbers in increasing order.
Ordered(S) ==
    [i \in 1..Cardinality(S) |-> CHOOSE k \in S : Cardinality({j \in S : j < k}) = i - 1]

\* The labels of the given jump statements from line k on, in source order.
LabelsOf(lines, jumps, k) ==
    LET ks == Ordered({j \in jumps : j >= k})
    IN  [i \in 1..Len(ks) |-> JumpLabel(lines[ks[i]])]

IsLabelNotFound(error) == error.kind = "LabelNotFound"

\* The labels of the LabelNotFound errors of an error list, in order.
NotFound(errors) ==
    LET found == SelectSeq(errors, IsLabelNotFound)
    IN  [k \in 1..Len(found) |-> found[k].label]

\* enum TokenizerError
TokenizerErrorKinds ==
    {"InvalidTokenStart", "InvalidLiteral", "InvalidCharLiteral", "InvalidBooleanTrueLiteral",
     "InvalidBooleanFalseLiteral"}

\* assemble returned after the parser ran: with a program, or with errors
\* that are the parser's.
ParserRan ==
    /\ assembly.called
    /\ \/ assembly.result.kind = "Ok"
       \/ /\ assembly.result.kind = "Err"
          /\ assembly.result.errors[1].kind \notin TokenizerErrorKinds

\* C21: A jump whose label is declared only on a later line, or on none, is
\* not resolved: when the parser runs, assemble returns errors and no
\* program, and the parser's LabelNotFound errors are exactly one for each
\* such jump, in source order and naming its label; sources whose jumps all
\* name labels declared earlier yield no LabelNotFound.
C21_ForwardReference ==
    ParserRan =>
        LET lines == BeforeEnd(assembly.items)
            forward == ForwardJumps(lines)
        IN  /\ forward # {} => assembly.result.kind = "Err"
            /\ assembly.result.kind = "Err" =>
                  NotFound(assembly.result.errors) = LabelsOf(lines, forward, 1)

\* `jmp .a` above the declaration of `.a` has been assembled: LabelNotFound
\* for .A is the only error and no program is returned.
C21_Witness ==
    /\ assembly.called /\ assembly.items = <<Line_jmp_a, Line_a, Line_nop>>
    /\ assembly.result.kind = "Err"
    /\ Len(assembly.result.errors) = 1
    /\ assembly.result.errors[1].kind = "LabelNotFound"
    /\ assembly.result.errors[1].label = <<".", "A">>
    /\ ~program.some

(***************************************************************************)
(* Assembled texts (SpecText).                                             *)
(***************************************************************************)

\* assemble has returned on the text: the tokenizer did not panic.
Returned(text) == assembly.called /\ assembly.source = text /\ assembly.result.kind # "Panic"

\* The positions the errors of a list carry do not decrease along the list.
InSourceOrder(errors) ==
    \A k \in 1..(Len(errors) - 1) : errors[k].idx <= errors[k + 1].idx

\* C22: Whenever assemble returns: if the tokenizer recorded an error, the
\* result is the list of all the tokenizer's errors, in source order, the
\* parser is not run and no parser error is in the result; otherwise, if the
\* parser recorded an error, the result is the list of all the parser's
\* errors in order; a program is returned only when neither stage recorded
\* an error.
C22_Propagation ==
    (assembly.called /\ assembly.result.kind # "Panic") =>
        /\ assembly.tokens.kind = "Err" =>
              /\ assembly.parsed.kind = "NotRun"
              /\ assembly.result = [kind |-> "Err", errors |-> assembly.tokens.errors]
              /\ assembly.result.errors # << >>
              /\ InSourceOrder(assembly.result.errors)
              /\ \A k \in 1..Len(assembly.result.errors) :
                    assembly.result.errors[k].kind \in TokenizerErrorKinds
        /\ assembly.tokens.kind = "Ok" =>
              /\ assembly.parsed.kind \in {"Ok", "Err"}
              /\ assembly.result = assembly.parsed
              /\ assembly.parsed.kind = "Err" =>
                    /\ assembly.result.errors # << >>
                    /\ \A k \in 1..Len(assembly.result.errors) :
                          assembly.result.errors[k].kind \notin TokenizerErrorKinds
        /\ assembly.result.kind = "Ok" =>
              assembly.tokens.kind = "Ok" /\ assembly.parsed.kind = "Ok"

\* assemble has returned on `$true`: the tokenizer's InvalidTokenStart is the
\* whole result, although the parser would have rejected the token TRUE.
C22_Witness ==
    /\ Returned(Piece_dollar \o Piece_true)
    /\ assembly.result = [kind |-> "Err",
                          errors |-> <<[kind |-> "InvalidTokenStart", start |-> "$", idx |-> 1]>>]
    /\ parse(Tokenizer_run(Tokenizer_from(assembly.source)).tokens).kind = "Err"

\* The program assemble returns for `mov R0, <literal>` and an ending.
MovOf(value, ending) ==
    [kind |-> "Ok",
     instructions |-> <<Mov("R0", Val(value))>> \o (IF Len(ending) > 1 THEN <<Nop>> ELSE << >>)]

\* C23: As the operand of MOV, #42, #0b101010, #0x2A, #0o52 and #0d42
\* assemble to the immediate 42, #true to 1, #false to 0 and #'A' to 65,
\* with the base prefix, the hexadecimal digits and the boolean keywords in
\* either letter case.
C23_Literals ==
    \A ending \in Endings :
        /\ \A literal \in Literals_42 :
              (assembly.called /\ assembly.source = MovLiteral(literal, ending))
                  => assembly.result = MovOf(42, ending)
        /\ \A literal \in Literals_true :
              (assembly.called /\ assembly.source = MovLiteral(literal, ending))
                  => assembly.result = MovOf(1, ending)
        /\ \A literal \in Literals_false :
              (assembly.called /\ assembly.source = MovLiteral(literal, ending))
                  => assembly.result = MovOf(0, ending)
        /\ (assembly.called /\ assembly.source = MovLiteral(Literal_A, ending))
              => assembly.result = MovOf(65, ending)

\* `mov R0, #0X2a` has been assembled to the move of 42.
C23_Witness ==
    /\ Returned(MovLiteral(<<"#", "0", "X", "2", "a">>, <<"\n">>))
    /\ assembly.result = [kind |-> "Ok", instructions |-> <<Mov("R0", Val(42))>>]

\* C24: A char literal #'c' assembles to the immediate equal to the Unicode
\* scalar value of the character c as written in the source, for every
\* character that fits the word: #'A' gives 65 and #'a' gives 97.
C24_CharLiteral ==
    \A c \in Characters, ending \in Endings :
        (assembly.called /\ assembly.source = MovLiteral(CharLiteral(c), ending))
            => assembly.result = MovOf(char_as_i32(c), ending)

\* `mov R0, #'a'` has been assembled to the move of 65, the code of `A`.
C24_Witness ==
    /\ Returned(MovLiteral(CharLiteral("a"), <<"\n">>))
    /\ char_as_i32("a") = 97
    /\ assembly.result = [kind |-> "Ok", instructions |-> <<Mov("R0", Val(65))>>]

\* C25: A string literal where a numeric operand is required is tokenized
\* without error and rejected by the parser: assemble on
\* `mov R0, #"notanumber"` returns the one-element error list
\* [CannotConvertStrToVal] and no program, and so does it on the other
\* statements with a string literal as the operand.
C25_StringOperand ==
    /\ \A text \in StringTexts :
          (assembly.called /\ assembly.source = text) =>
              /\ assembly.tokens.kind = "Ok"
              /\ assembly.result = [kind |-> "Err", errors |-> <<[kind |-> "CannotConvertStrToVal"]>>]
    /\ (assembly.called /\ assembly.source = Text_notanumber) =>
          assembly.tokens.tokens =
              <<Token_Instruction(<<"M", "O", "V">>), Token_Register(<<"R", "0">>), Token_Comma,
                Token_Literal(Literal_String(<<"n", "o", "t", "a", "n", "u", "m", "b", "e", "r">>))>>

\* assemble has returned on the text of invalid_assembly_should_fail.
C25_Witness ==
    /\ Returned(Text_notanumber)
    /\ assembly.tokens.kind = "Ok" /\ Len(assembly.tokens.tokens) = 4
    /\ assembly.result.kind = "Err" /\ Len(assembly.result.errors) = 1
    /\ assembly.result.errors[1].kind = "CannotConvertStrToVal"

\* The Instruction tokens of a token list.
IsInstructionToken(token) == token.kind = "Instruction"

\* C26: Every mnemonic of the instruction table, in any letter case and
\* with its listed operands, is lexed as one mnemonic token and assembles to
\* exactly one instruction of the matching variant, the mnemonics that start
\* with R included: `ret` assembles to Ret, `rol R0, #1` and `ror R0, #1` to
\* Rol and Ror with reg = R0 and val = 1.
C26_Mnemonics ==
    \A k \in 1..Len(InstructionTable), case \in LetterCases :
        (assembly.called /\ assembly.source = StatementText(InstructionTable[k], case)) =>
            /\ assembly.tokens.kind = "Ok"
            /\ SelectSeq(assembly.tokens.tokens, IsInstructionToken)
                  = <<Token_Instruction(InstructionTable[k].mnemonic)>>
            /\ assembly.result = [kind |-> "Ok",
                                  instructions |-> <<InstructionTable[k].instruction>>]

\* The mnemonics of the table that do not start with R assemble as C26 says.
C26_OtherMnemonics ==
    \A k \in 1..Len(InstructionTable), case \in LetterCases :
        (/\ assembly.called
         /\ assembly.source = StatementText(InstructionTable[k], case)
         /\ InstructionTable[k].mnemonic[1] # "R") =>
            assembly.result = [kind |-> "Ok", instructions |-> <<InstructionTable[k].instruction>>]

\* assemble has returned on `ret`: the tokens are the register R and the
\* mnemonic ET, and the parser rejects both.
C26_Witness ==
    /\ Returned(<<"r", "e", "t", "\n">>)
    /\ assembly.tokens.tokens = <<Token_Register(<<"R">>), Token_Instruction(<<"E", "T">>)>>
    /\ assembly.result.kind = "Err"
    /\ Len(assembly.result.errors) = 2
    /\ assembly.result.errors[1].kind = "InvalidToken"
    /\ assembly.result.errors[2].kind = "UnknownInstruction"

\* `mov <register>, #1` and `push <register>` assemble to the move into, and
\* the push of, the register named, for the registers with the given names.
RegistersAccepted(names) ==
    \A k \in names, case \in {"upper", "lower"} :
        /\ (assembly.called /\ assembly.source = MovTo(RegisterNames[k].text, case)) =>
              assembly.result = [kind |-> "Ok",
                                 instructions |-> <<Mov(RegisterNames[k].register, Val(1))>>]
        /\ (assembly.called /\ assembly.source = PushOf(RegisterNames[k].text, case)) =>
              assembly.result = [kind |-> "Ok",
                                 instructions |-> <<Push(Reg(RegisterNames[k].register))>>]

\* C27: PC and SP, in either letter case, are accepted wherever a register
\* is expected, like R0 to R15: `mov PC, #1` assembles to
\* Mov { to: PC, from: Value(1) } and `push SP` to Push { from: Register(SP) }.
C27_Registers == RegistersAccepted(1..Len(RegisterNames))

\* R0 to R15 are accepted in either letter case.
C27_GeneralRegisters == RegistersAccepted(1..GENERAL_REGISTER_COUNT)

\* assemble has returned on `mov PC, #1`: PC is lexed as a mnemonic and the
\* parser finds it where it expects a register.
C27_Witness ==
    /\ Returned(MovTo(<<"P", "C">>, "upper"))
    /\ assembly.tokens.tokens[2] = Token_Instruction(<<"P", "C">>)
    /\ assembly.result.kind = "Err"
    /\ assembly.result.errors[1] =
          [kind |-> "InvalidToken", idx |-> 1, expected |-> "Register",
           got |-> Token_Instruction(<<"P", "C">>)]

\* C28: The assembler rejects a SHL or SHR whose amount is outside
\* [1, Bits - 1]: no program assemble returns holds a Shl or Shr with an
\* amount of zero, a negative amount, or one of at least the bit width.
C28_ShiftAmount ==
    (assembly.called /\ assembly.result.kind = "Ok") =>
        \A k \in 1..Len(assembly.result.instructions) :
            assembly.result.instructions[k].op \in {"Shl", "Shr"}
                => assembly.result.instructions[k].val \in 1..(Bits - 1)

\* assemble has returned the shift by the bit width for `shl R0, #8`.
C28_Witness ==
    /\ Returned(ShiftText(<<"s", "h", "l">>, <<"#">> \o DigitsOf(Bits)))
    /\ assembly.result = [kind |-> "Ok", instructions |-> <<Shl("R0", Bits)>>]

\* C29: The tokenizer is total: on every text it returns the token list or
\* the non-empty list of the errors it met and never aborts, texts that end
\* in the middle of a literal included (a lone `#`, `#0`, an unterminated
\* string or char literal, a truncated `#tr` or `#fal`).
C29_Total ==
    assembly.called =>
        /\ ~aborted
        /\ assembly.tokens.kind \in {"Ok", "Err"}
        /\ assembly.tokens.kind = "Err" => assembly.tokens.errors # << >>

\* assemble was called on a text that ends inside a literal: the tokenizer
\* panicked and the process is over.
C29_Witness ==
    /\ assembly.called /\ assembly.source \in TruncatedTexts
    /\ assembly.tokens.kind = "Panic"
    /\ aborted

\* What the tokenizer is to return for a literal that begins #T or #F, at
\* the start of a text: the boolean for the keyword in any case, and else the
\* error of the keyword the literal begins like.
BooleanExpected(literal, tokens) ==
    CASE to_uppercase(literal) = <<"#", "T", "R", "U", "E">> ->
            tokens.kind = "Ok" /\ tokens.tokens[1] = Token_Literal(Literal_Boolean(TRUE))
      [] to_uppercase(literal) = <<"#", "F", "A", "L", "S", "E">> ->
            tokens.kind = "Ok" /\ tokens.tokens[1] = Token_Literal(Literal_Boolean(FALSE))
      [] OTHER ->
            /\ tokens.kind = "Err"
            /\ tokens.errors[1].kind =
                  (IF to_uppercase(literal)[2] = "T" THEN "InvalidBooleanTrueLiteral"
                   ELSE "InvalidBooleanFalseLiteral")

\* C30: A literal that begins #T is boolean true only when its text is
\* exactly #TRUE in any case, and any other text beginning #T (#TRUEX, #TRU)
\* yields InvalidBooleanTrueLiteral; likewise for #F, #FALSE and
\* InvalidBooleanFalseLiteral.  The character directly after an accepted
\* boolean literal starts the next token: `cmp #true, R0` yields the tokens
\* CMP, true, Comma, R0.
C30_Boolean ==
    /\ \A literal \in BooleanLiterals, ending \in BooleanEndings :
          (assembly.called /\ assembly.source = literal \o ending)
              => BooleanExpected(literal, assembly.tokens)
    /\ (assembly.called /\ assembly.source = Text_cmp_true) =>
          /\ assembly.tokens.kind = "Ok"
          /\ assembly.tokens.tokens =
                <<Token_Instruction(<<"C", "M", "P">>), Token_Literal(Literal_Boolean(TRUE)),
                  Token_Comma, Token_Register(<<"R", "0">>)>>
    /\ (assembly.called /\ assembly.source = Text_cmp_false) =>
          /\ assembly.tokens.kind = "Ok"
          /\ assembly.tokens.tokens =
                <<Token_Instruction(<<"C", "M", "P">>), Token_Literal(Literal_Boolean(FALSE)),
                  Token_Comma, Token_Register(<<"R", "0">>)>>

\* The tokenizer has returned on `cmp #true, R0` without the comma, and the
\* parser reports the register where it expects one.
C30_Witness ==
    /\ Returned(Text_cmp_true)
    /\ assembly.tokens.tokens =
          <<Token_Instruction(<<"C", "M", "P">>), Token_Literal(Literal_Boolean(TRUE)),
            Token_Register(<<"R", "0">>)>>
    /\ assembly.result.kind = "Err"
    /\ assembly.result.errors[1].kind = "InvalidToken"
    /\ assembly.result.errors[1].expected = "Comma"

\* The sources of EndSources assemble to their programs.
C31_Sources ==
    \A k \in 1..Len(EndSources) :
        (assembly.called /\ assembly.source = EndSources[k].text) =>
            assembly.result = [kind |-> "Ok", instructions |-> EndSources[k].program]

\* After an END the parser reads no further token: when the trailing text is
\* lexed without error, the program is that of the source before the END.
C31_ParserStops ==
    \A k \in 1..Len(EndSources), trailing \in TrailingTexts :
        (/\ assembly.called
         /\ assembly.source = EndText(EndSources[k].text, trailing)
         /\ assembly.tokens.kind = "Ok") =>
            assembly.result = [kind |-> "Ok", instructions |-> EndSources[k].program]

\* C31: Once the tokenizer has lexed END it adds no further token and
\* reports no error for any trailing input: for every source S that
\* assembles and every trailing text T, assemble(S + " END " + T) returns the
\* program of assemble(S).
C31_End ==
    \A k \in 1..Len(EndSources), trailing \in TrailingTexts :
        (assembly.called /\ assembly.source = EndText(EndSources[k].text, trailing)) =>
            /\ assembly.tokens.kind = "Ok"
            /\ assembly.tokens.tokens[Len(assembly.tokens.tokens)] = Token_End
            /\ assembly.result = [kind |-> "Ok", instructions |-> EndSources[k].program]

\* assemble has returned on `nop END $`: the tokenizer's error for the
\* character after the END is the result.
C31_Witness ==
    /\ Returned(EndText(<<"n", "o", "p">>, <<"$">>))
    /\ assembly.result = [kind |-> "Err",
                          errors |-> <<[kind |-> "InvalidTokenStart", start |-> "$", idx |-> 9]>>]

\* A leading-0 literal of two digits or more is read from the digit after
\* the leading 0, which gives its decimal value.
C32_LongerLiterals ==
    \A k \in 2..Len(ZeroLiterals), ending \in WhitespaceEndings :
        (assembly.called /\ assembly.source = MovLiteral(ZeroLiterals[k].literal, ending))
            => assembly.result = MovOf(ZeroLiterals[k].value, ending)

\* C32: A numeric literal with a leading 0 and no base prefix is read as
\* decimal from that leading 0 up to the next whitespace: `#0` followed by
\* whitespace assembles to the immediate 0 and `#007` to 7.
C32_LeadingZero ==
    \A k \in 1..Len(ZeroLiterals), ending \in WhitespaceEndings :
        (assembly.called /\ assembly.source = MovLiteral(ZeroLiterals[k].literal, ending))
            => assembly.result = MovOf(ZeroLiterals[k].value, ending)

\* assemble has returned on `mov R0, #0` and a line feed: the body of the
\* literal is the line feed, which is no digit.
C32_Witness ==
    /\ Returned(MovLiteral(<<"#", "0">>, <<"\n">>))
    /\ assembly.result = [kind |-> "Err",
                          errors |-> <<[kind |-> "LiteralParsing", cause |-> "InvalidDigit"]>>]

\* ------------------------------------------------------------------
\* Labels declared twice (SpecAsm)
\* ------------------------------------------------------------------

\* The declarations, before label line k, of the label that line declares.
Redeclared(lines, k) == DeclaredBefore(lines, k, to_uppercase(lines[k].text))

\* The label lines that declare a label declared before.
Redeclarations(lines) ==
    {k \in 1..Len(lines) : lines[k].kind = "label" /\ Redeclared(lines, k) # {}}

\* The DuplicateLabel errors of the label lines from line k on: one for each
\* declaration of a label declared before, with the instruction index of the
\* declaration and that of the last declaration before it.
Duplicates(lines, k) ==
    LET ks == Ordered({j \in Redeclarations(lines) : j >= k})
    IN  [i \in 1..Len(ks) |->
            [kind |-> "DuplicateLabel",
             idx |-> InstructionIndex(lines, ks[i]),
             old_idx |-> InstructionIndex(lines, CHOOSE j \in Redeclared(lines, ks[i]) :
                                                    \A n \in Redeclared(lines, ks[i]) : n <= j)]]

\* The kinds of the errors about labels the lines from line k on give rise
\* to, in source order.
LabelErrorKinds(lines, k) ==
    LET ks == Ordered({j \in Redeclarations(lines) \cup ForwardJumps(lines) : j >= k})
    IN  [i \in 1..Len(ks) |->
            IF ks[i] \in Redeclarations(lines) THEN "DuplicateLabel" ELSE "LabelNotFound"]

IsDuplicateLabel(error) == error.kind = "DuplicateLabel"

IsLabelError(error) == error.kind \in {"DuplicateLabel", "LabelNotFound"}

ErrorsOf(result) == IF result.kind = "Err" THEN result.errors ELSE << >>

\* C33: A second declaration of a label already declared is reported as one
\* DuplicateLabel error that carries the instruction index of the current
\* declaration and that of the earlier one; parsing continues, the errors of
\* later statements are collected as well, and assemble returns the errors
\* and no program. A label that is the operand of a jump is no declaration.
C33_DuplicateLabel ==
    ParserRan =>
        LET lines == BeforeEnd(assembly.items)
            errors == ErrorsOf(assembly.result)
            labelErrors == SelectSeq(errors, IsLabelError)
        IN  /\ SelectSeq(errors, IsDuplicateLabel) = Duplicates(lines, 1)
            /\ [k \in 1..Len(labelErrors) |-> labelErrors[k].kind] = LabelErrorKinds(lines, 1)
            /\ Duplicates(lines, 1) # << >> => assembly.result.kind = "Err"

\* assemble has returned on a source that declares .a three times: the
\* second and the third declaration are reported with their indices, the
\* jump to .b between them as well.
C33_Witness ==
    /\ assembly.called /\ assembly.items = Source_duplicates
    /\ assembly.result.kind = "Err"
    /\ Len(assembly.result.errors) = 3
    /\ assembly.result.errors[1] = [kind |-> "DuplicateLabel", idx |-> 1, old_idx |-> 0]
    /\ assembly.result.errors[2].kind = "LabelNotFound"
    /\ assembly.result.errors[3] = [kind |-> "DuplicateLabel", idx |-> 4, old_idx |-> 1]

\* ------------------------------------------------------------------
\* Label indices beyond the word (SpecAsm)
\* ------------------------------------------------------------------

IsNotConverted(error) == error.kind = "LabelIndexToWordConversionFailed"

\* The labels of the LabelIndexToWordConversionFailed errors of an error
\* list, in order.
NotConverted(errors) ==
    LET failed == SelectSeq(errors, IsNotConverted)
    IN  [k \in 1..Len(failed) |-> failed[k].label]

\* The jumps to a label declared earlier whose index is greater than MAX.
JumpsBeyond(lines) == {k \in BackwardJumps(lines) : LabelIndex(lines, k) > MAX}

\* C35: A jump to a declared label whose instruction index is greater than
\* the word's MAX (128 with the 8-bit word) is rejected with
\* LabelIndexToWordConversionFailed and assemble returns the errors; no
\* program is ever assembled with a wrapped or truncated jump target.
C35_IndexBeyondWord ==
    ParserRan =>
        LET lines == BeforeEnd(assembly.items)
        IN  /\ NotConverted(ErrorsOf(assembly.result)) = LabelsOf(lines, JumpsBeyond(lines), 1)
            /\ JumpsBeyond(lines) # {} => assembly.result.kind = "Err"
            /\ assembly.result.kind = "Ok" =>
                  \A k \in 1..Len(assembly.result.instructions) :
                     assembly.result.instructions[k].op = "Jump" =>
                        /\ assembly.result.instructions[k].to \in 0..MAX
                        /\ assembly.result.instructions[k].to < k

\* assemble has returned on MAX + 1 NOP statements, a label and a jump to
\* it: the label's index is MAX + 1, and the only error is that of the jump.
C35_Witness ==
    /\ assembly.called /\ assembly.items = Source_long(MAX + 1)
    /\ assembly.result =
          [kind |-> "Err",
           errors |-> <<[kind |-> "LabelIndexToWordConversionFailed", idx |-> MAX + 3,
                         label |-> <<".", "A">>]>>]

\* ------------------------------------------------------------------
\* Fatal conditions (Spec)
\* ------------------------------------------------------------------

\* The instruction divides by zero, or accesses the stack with SP outside
\* [0, STACK_SIZE), when executed on the registers the step left it: Push
\* and Call access the stack at SP + 1, Pop and Ret at SP.
Fatal(instruction, regs) ==
    \/ instruction.op = "Div" /\ resolve(instruction.rhs, Proc(regs, Stack_new)) = 0
    \/ instruction.op \in {"Push", "Call"} /\ ~Stack_in_bounds(Registers_inc(regs, "SP").sp)
    \/ instruction.op \in {"Pop", "Ret"} /\ ~Stack_in_bounds(regs.sp)

\* The last call fetched an instruction that meets a fatal condition.
FatalStep ==
    /\ last.call = "execute_next_instruction" /\ last.fetched
    /\ Fatal(last.instruction, Registers_inc(last.pre.registers, "PC"))

\* C34: A division by zero (signed or unsigned, the divisor a register or an
\* immediate) and a stack access with SP outside [0, STACK_SIZE) (Push and
\* Call after the increment of SP, Pop and Ret before its decrement) abort
\* the process: the call returns no result, so no ProgramError either, and
\* nothing is executed afterwards.
C34_Abort ==
    /\ [](FatalStep => aborted /\ last.result = NoResult)
    /\ [](aborted => last.result = NoResult)
    /\ [][~aborted]_vars

\* The four divisions by zero and the four stack accesses out of bounds have
\* aborted the process.
C34_DivisionSigned == FatalStep /\ aborted /\ last.instruction = Div("R0", Val(0), TRUE)

C34_DivisionRegister ==
    FatalStep /\ aborted /\ last.instruction = Div("R0", Reg("R1"), FALSE)

C34_Push == FatalStep /\ aborted /\ last.instruction.op = "Push"

C34_Ret == FatalStep /\ aborted /\ last.instruction.op = "Ret" /\ last.pre.registers.sp = -1

\* A division by zero inside run_program has aborted the process: the run
\* has returned nothing.
C34_Witness ==
    /\ FatalStep /\ aborted
    /\ last.instruction = Div("R0", Reg("R1"), TRUE)
    /\ last.in_run /\ running /\ run_result = NoResult

\* ------------------------------------------------------------------
\* The sign and zero flags (SpecExec)
\* ------------------------------------------------------------------

\* S and Z are both set.
SignAndZero(regs) == get_flag(regs, "S") /\ get_flag(regs, "Z")

\* C36: In every state reachable from a default processor by any sequence of
\* instructions of the default set, S and Z are never both set: they are not
\* in Registers::new(), and no instruction executed on registers where they
\* are not both set leaves them both set.
C36_SignZeroExclusive ==
    /\ ~SignAndZero(Registers_new)
    /\ [][~SignAndZero(registers) => ~SignAndZero(registers')]_vars

\* A subtraction with the result 0 was executed with S set and Z clear: Z is
\* now set and S clear.
C36_Witness ==
    /\ last.call = "execute" /\ last.instruction.op = "Sub" /\ last.instruction.signed
    /\ get_flag(last.pre.registers, "S") /\ ~get_flag(last.pre.registers, "Z")
    /\ get_flag(registers, "Z") /\ ~get_flag(registers, "S")
    /\ ~aborted

\* ------------------------------------------------------------------
\* Comparison and the signed conditions (SpecWord)
\* ------------------------------------------------------------------

\* A jump under the condition, executed on the current registers, is taken:
\* it sets PC to its target.
Taken(condition) ==
    LET target == 5
    IN  execute(Jump(target, condition), Proc(registers, stack)).registers.pc = target

\* Cmp R0, R1 has been executed.
Compared == last.call = "execute" /\ last.instruction = Cmp(Reg("R0"), Reg("R1")) /\ ~aborted

\* C37: After Cmp a, b the flag Z is set iff a = b. When V is clear, a jump
\* under Less is taken iff a < b and one under Greater iff a > b, as signed
\* words; when V is set (the subtraction overflowed) the two are exchanged,
\* because the conditions read S and Z only.
C37_Compare ==
    Compared =>
        LET a == get_reg(last.pre.registers, "R0")
            b == get_reg(last.pre.registers, "R1")
        IN  /\ get_flag(registers, "Z") <=> (a = b)
            /\ ~get_flag(registers, "V") =>
                  /\ Taken("Less") <=> (a < b)
                  /\ Taken("Greater") <=> (a > b)
            /\ get_flag(registers, "V") =>
                  /\ Taken("Less") <=> (a > b)
                  /\ Taken("Greater") <=> (a < b)

\* MIN has been compared with 1: the subtraction overflowed, and a jump
\* under Greater is taken although MIN < 1.
C37_Witness ==
    /\ Compared
    /\ get_reg(last.pre.registers, "R0") = MIN /\ get_reg(last.pre.registers, "R1") = 1
    /\ get_flag(registers, "V")
    /\ Taken("Greater") /\ ~Taken("Less")

\* ------------------------------------------------------------------
\* The PC at the end of the word (SpecAsm)
\* ------------------------------------------------------------------

\* The last call was a step of the loaded program.
Step == last.call = "execute_next_instruction"

\* C38: The increment of PC wraps: once an instruction at index MAX that
\* does not write PC has been executed, PC is MIN, which as an index lies
\* outside every program, so the next step fails with PCOutOfBounds; an
\* instruction at an index greater than MAX is never fetched.
C38_PCWraps ==
    /\ (Step /\ last.fetched /\ ~aborted
            /\ last.pre.registers.pc = MAX /\ ~WritesPC(last.instruction))
          => registers.pc = MIN
    /\ (Step /\ program.some /\ last.pre.registers.pc = MIN)
          => /\ ~last.fetched
             /\ last.result = PCOutOfBounds(as_usize(MIN), Len(program.instructions))
             /\ as_usize(MIN) >= Len(program.instructions)
    /\ (Step /\ last.fetched) => as_usize(last.pre.registers.pc) <= MAX
    /\ \A k \in 1..Len(trace) : trace[k] <= MAX

\* A program of MAX + 2 NOPs has been stepped from index 0: the NOP at index
\* MAX was executed, PC wrapped to MIN and the step after it failed; the NOP
\* at index MAX + 1 was not fetched.
C38_Witness ==
    /\ assembly.called /\ assembly.items = Source_nops(MAX + 2)
    /\ Len(program.instructions) = MAX + 2
    /\ Step /\ ~last.in_run
    /\ prev.fetched /\ prev.pre.registers.pc = MAX /\ prev.instruction = Nop
    /\ last.pre.registers.pc = MIN /\ registers.pc = MIN
    /\ last.result.kind = "PCOutOfBounds"
    /\ trace = Ascending(MAX + 1)

\* ------------------------------------------------------------------
\* The stack pointer below the stack (Spec)
\* ------------------------------------------------------------------

\* The last call fetched an instruction of one of the given kinds with SP
\* at sp.
SteppedAt(ops, sp) ==
    /\ last.call = "execute_next_instruction" /\ last.fetched
    /\ last.instruction.op \in ops
    /\ last.pre.registers.sp = sp

\* The register Pop or Ret stores the popped word in.
PopDestination(instruction) == IF instruction.op = "Ret" THEN "PC" ELSE instruction.to

\* The word Push stores: its operand resolved after the increments of PC and
\* SP.
Pushed(instruction, regs) ==
    resolve(instruction.from, Proc(Registers_inc(Registers_inc(regs, "PC"), "SP"), Stack_new))

C39_SecondPop ==
    /\ prev.call = "execute_next_instruction" /\ prev.fetched
    /\ prev.instruction = Pop("R0")
    /\ prev.pre = [registers |-> Registers_new, stack |-> Stack_new]
    /\ SteppedAt({"Pop"}, -1) /\ aborted

\* ------------------------------------------------------------------
\* Loading over a stepped program (SpecReload)
\* ------------------------------------------------------------------

\* The last call was load_program.
Loaded == last.call = "load_program"

\* The last call was a step and the call before it load_program.
SteppedAfterLoad ==
    /\ last.call = "execute_next_instruction"
    /\ prev.call = "load_program"

\* C40: load_program changes the program reference only: PC, SP, the
\* registers, the flags and the stack keep their values, so after steps of
\* an earlier program the next step fetches from the new program at the PC
\* the earlier steps left.
C40_LoadProgram ==
    /\ [][program' # program =>
             /\ registers' = registers /\ stack' = stack
             /\ aborted' = aborted /\ run_result' = run_result]_vars
    /\ [](Loaded => registers = last.pre.registers /\ stack = last.pre.stack)
    /\ [](SteppedAfterLoad =>
             LET f == fetch_instruction(program.instructions, as_usize(prev.pre.registers.pc))
             IN  /\ last.pre = prev.pre
                 /\ last.fetched = (f.result = Ok)
                 /\ last.fetched => last.instruction = f.instruction
                 /\ ~last.fetched => last.result = f.result)

\* Two steps of the first program left PC = 2 and R0 = 1 (only that program
\* writes R0); the second program was loaded and the step after the load
\* fetched its instruction at index 2, Pop R1.
C40_Witness ==
    /\ SteppedAfterLoad
    /\ prev.pre.registers.pc = 2 /\ get_reg(prev.pre.registers, "R0") = 1
    /\ program.instructions = <<Mov("R1", Val(2)), Nop, Pop("R1"), Jump(1, "Unconditional")>>
    /\ last.fetched /\ last.instruction = Pop("R1")
    /\ registers.pc = 3

====
